---- MODULE Spec2Model ----
(***************************************************************************)
(* GhostHub: the message-to-issue pipeline of the background worker.       *)
(*                                                                         *)
(* The model follows the JavaScript sources: the IndexedDB manager         *)
(* (storage/indexeddb.js), the Prompt API manager (classification), the    *)
(* Summarizer API manager, the multimodal image utility and the AI         *)
(* workflow manager that the background worker's message listener drives.  *)
(* Every async function is cut at its await points: one action per         *)
(* continuation, so that two requests handled by the worker interleave     *)
(* exactly where the event loop lets them.                                 *)
(***************************************************************************)
EXTENDS Integers, Sequences, FiniteSets, TLC

\* ------------------------------------------------------------------ bounds

\* Requests the worker receives in one run (each may insert records).
MaxRequests == 3

\* Concurrently running request handlers (async IIFEs of the listener).
Handlers == {1, 2}

\* ------------------------------------------------------------- input sets

Msg(t, a) == [text |-> t, author |-> a]

Messages == {Msg("crash on save", "ann"), Msg("any news?", "bob")}

\* Threads a content script may submit: malformed (no messages), or two
\* messages in order.
Threads ==
  { [threadId |-> "T-empty", messages |-> <<>>],
    [threadId |-> "T-crash",
     messages |-> <<Msg("any news?", "bob"), Msg("crash on save", "ann")>>] }

\* Items in one batch call, and batch calls in one run.
MaxBatch == 2
MaxBatchCalls == 1

Platforms == {"slack"}

\* Status values a caller may put into UPDATE_ISSUE_STATUS.
StatusInputs == {"draft", "approved", "rejected", "archived"}

Categories == {"bug", "feature", "pr_mention", "other"}
Confidences == {"high", "medium", "low"}

\* Raw model output, as a sequence of whitespace-separated tokens.
RawResponses ==
  { <<"category:", "bug", "confidence:", "high">>,
    <<"category:", "other", "confidence:", "medium">>,
    <<"sorry,", "no", "idea">> }

\* Direct classifyMessage calls in a run with arbitrary model output.
MaxClassifyCalls == 1

\* Tokens for arbitrary model output: keys and values in any case, a value
\* with trailing characters, and a word that is neither.
ResponseTokens ==
  {"Category:", "BUG", "otherwise", "confidence:", "HIGH", "maybe"}

MaxResponseLen == 2

SummaryTexts == {"App crashes on save. Seen by two users."}

\* What a summarizer's stream delivers: each chunk is the summary so far (as
\* a sequence of sentences), the last one the complete text. A stream may
\* end without a chunk.
SummaryStreams ==
  { <<>>,
    << <<"App crashes on save.">> >>,
    << <<"App crashes on save.">>,
       <<"App crashes on save.", "Seen by two users.">> >> }

\* summarizeStreaming calls in one run.
MaxStreamCalls == 2

\* What capabilities().available reports ("absent": window.ai is missing).
Availabilities == {"readily", "after-download", "no", "absent"}

STORES == {"classifications", "summaries", "issues"}

\* The object store of utils/indexeddb.js.
STORE_NAME == "messages"

AllStores == STORES \cup {STORE_NAME}

\* Calls of the stores' own functions in one run.
MaxStoreCalls == 3

\* Records handed to the stores' functions directly; "" and 0 stand for a
\* field the caller left out.
Item(platform, type, status, timestamp) ==
  [id |-> 0, platform |-> platform, type |-> type, content |-> "crash on save",
   status |-> status, timestamp |-> timestamp]

StoreInputs ==
  { Item("slack", "bug", "", 0),
    Item("slack", "feature", "approved", 5),
    Item("", "bug", "draft", 5) }

\* Filters handed to the query functions: field -> value.
Filters ==
  { <<>>,
    [status |-> "draft", platform |-> "slack"],
    [type |-> "bug"],
    [timestamp |-> 5] }

\* Partial records handed to update(id, updates).
Updates ==
  { [status |-> "sent"],
    [status |-> "approved", id |-> 7],
    [type |-> "feature", timestamp |-> 9] }

\* Values of Date.now().
Clock == {1000}

\* ---------------------------------------------------------------- state

VARIABLES
  db,                 \* db[store]: id -> record, the object stores' contents
  keyGen,             \* keyGen[store]: the autoIncrement key generator
  aiLanguageModel,    \* environment: window.ai.languageModel availability
  aiSummarizer,       \* environment: window.ai.summarizer availability
  promptSession,      \* PromptAPIManager.session (0: null)
  promptIsAvailable,  \* PromptAPIManager.isAvailable
  summarizer,         \* SummarizerAPIManager.summarizer (0: null)
  summarizerIsAvailable, \* SummarizerAPIManager.isAvailable
  mmSession,          \* MultimodalAI.session (0: null)
  sessionsCreated,    \* sessions handed out by the capability so far
  initialized,        \* AIWorkflowManager.initialized
  analyzerMultimodalAI, \* MessageAnalyzer.multimodalAI is set (FALSE: null)
  lastProcessedTimestamp, \* slack.js: lastProcessedTimestamp
  slackDom,           \* the messages in the Slack page, in page order
  slackSent,          \* what slack.js has sent to the worker, in order
  drafts,             \* chrome.storage.local 'drafts'
  contentMessages,    \* ContentScript.messages: id -> message data
  contentLog,         \* ContentScript: what it sent and when it cleared
  githubToken,        \* GitHubAPI.token of the worker's client ("": null)
  savedToken,         \* chrome.storage.sync githubToken ("": not set)
  received,           \* requests received so far
  task                \* task[h]: the state of handler h's async call chain

vars == <<db, keyGen, aiLanguageModel, aiSummarizer, promptSession,
          promptIsAvailable, summarizer, summarizerIsAvailable, mmSession,
          sessionsCreated, initialized, analyzerMultimodalAI,
          lastProcessedTimestamp, slackDom, slackSent, drafts,
          contentMessages, contentLog, githubToken, savedToken, received,
          task>>

envVars == <<aiLanguageModel, aiSummarizer>>
promptVars == <<promptSession, promptIsAvailable>>
summarizerVars == <<summarizer, summarizerIsAvailable>>
dbVars == <<db, keyGen>>
tokenVars == <<githubToken, savedToken>>
slackVars == <<lastProcessedTimestamp, slackDom, slackSent>>
contentVars == <<contentMessages, contentLog>>
extensionVars ==
  <<tokenVars, analyzerMultimodalAI, slackVars, drafts, contentVars>>

\* ------------------------------------------------------------- records

NoClassification ==
  [id |-> 0, messageText |-> "", platform |-> "", author |-> "",
   classification |-> "", confidence |-> "", rawResponse |-> <<>>]

NoSummary ==
  [id |-> 0, threadId |-> "", platform |-> "", messageCount |-> 0,
   originalMessages |-> <<>>, summary |-> ""]

NoIssue ==
  [id |-> 0, labels |-> <<>>, type |-> "", platform |-> "", messageCount |-> 0,
   classificationId |-> 0, summaryId |-> 0, status |-> "",
   originalMessages |-> <<>>]

NoImageResult == [error |-> "", text |-> <<>>, context |-> <<>>, errors |-> <<>>]

NoArg ==
  [messages |-> <<>>, threadId |-> "", platform |-> "", id |-> 0,
   status |-> "", store |-> "", image |-> ""]

\* What a call resolves with ("resolved"), rejects with ("rejected"), or the
\* entry a batch records for a failed item ("error-entry").
NoResult ==
  [outcome |-> "", error |-> "", actionable |-> FALSE, threadId |-> "",
   classification |-> NoClassification, summary |-> NoSummary,
   issueDraft |-> NoIssue, image |-> NoImageResult, value |-> <<>>]

\* pc: the await the call chain is suspended at; sess: the session the
\* pending capability call was made on; sent: the text handed to the
\* summarizer; items/results: a batch's inputs and the results pushed so
\* far; chunks: the arguments onChunk was invoked with, in order; trace:
\* what this invocation has done, in order.
IdleTask ==
  [pc |-> "idle", op |-> "", arg |-> NoArg, sess |-> 0,
   cls |-> NoClassification, sum |-> NoSummary, issue |-> NoIssue,
   result |-> NoResult, items |-> <<>>, results |-> <<>>, trace |-> <<>>,
   sent |-> <<>>, chunks |-> <<>>,
   before |-> [s \in STORES |-> <<>>]]

\* ------------------------------------------------------- persistent store

\* A generator that restarts after the highest key still stored.
NewKeyAfterLast(storeName) ==
  LET keys == DOMAIN db[storeName]
  IN IF keys = {} THEN 1 ELSE (CHOOSE k \in keys : \A j \in keys : j <= k) + 1

\* store.add(data) on an autoIncrement store with keyPath 'id': the key the
\* generator hands out, and the store's contents afterwards.
NewKey(storeName) == keyGen[storeName] + 1

Put(records, id, data) == (id :> [data EXCEPT !.id = id]) @@ records

_addRecord(storeName, data) ==
  /\ db' = [db EXCEPT ![storeName] = Put(@, NewKey(storeName), data)]
  /\ keyGen' = [keyGen EXCEPT ![storeName] = NewKey(storeName)]

\* store.put(data): inserts or replaces the record under data.id.
_updateRecord(storeName, data) ==
  /\ db' = [db EXCEPT ![storeName] = Put(@, data.id, data)]
  /\ UNCHANGED keyGen

Remove(records, id) == [k \in DOMAIN records \ {id} |-> records[k]]

\* A delete that takes the drafts referring to the record with it.
DeleteCascades(storeName, id) ==
  LET refers(issue) ==
        \/ storeName = "classifications" /\ issue.classificationId = id
        \/ storeName = "summaries" /\ issue.summaryId = id
      kept == {k \in DOMAIN db["issues"] : ~refers(db["issues"][k])}
  IN /\ db' = [s \in AllStores |->
                IF s = storeName THEN Remove(db[s], id)
                ELSE IF s = "issues" THEN [k \in kept |-> db["issues"][k]]
                ELSE db[s]]
     /\ UNCHANGED keyGen

\* store.delete(id)
_deleteRecord(storeName, id) ==
  /\ db' = [db EXCEPT ![storeName] = Remove(@, id)]
  /\ UNCHANGED keyGen

\* storeIssue: status defaults to 'draft' when the draft carries none.
IssueToStore(issue) ==
  [issue EXCEPT !.status = IF issue.status = "" THEN "draft" ELSE issue.status]

\* updateIssueStatus: the record written back after issue.status = status.
StatusUpdated(issue, status) == [issue EXCEPT !.status = status]

\* ------------------------------------------------------------ classifier

Lower(tok) ==
  CASE tok = "Category:" -> "category:"
    [] tok = "Confidence:" -> "confidence:"
    [] tok = "BUG" -> "bug"
    [] tok = "Crash" -> "crash"
    [] tok = "Feature" -> "feature"
    [] tok = "Other" -> "other"
    [] tok = "HIGH" -> "high"
    [] tok = "Low" -> "low"
    [] tok = "Slack" -> "slack"
    [] tok = "Discord" -> "discord"
    [] OTHER -> tok

\* The alternative a token starts with: the group (bug|feature|...) matches
\* a prefix of what follows the key, so "otherwise" yields "other".
Leading(tok) ==
  CASE tok = "otherwise" -> "other"
    [] tok = "bug," -> "bug"
    [] tok = "high." -> "high"
    [] OTHER -> tok

Min(S) == CHOOSE x \in S : \A y \in S : x <= y

\* response.match(/key\s*(v1|v2|...)/i): the first place where the key is
\* followed by one of the values; "" when there is no match.
MatchAfter(response, key, values) ==
  LET hits == {i \in 1..(Len(response) - 1) :
                 /\ Lower(response[i]) = key
                 /\ Leading(Lower(response[i + 1])) \in values}
  IN IF hits = {} THEN "" ELSE Leading(Lower(response[Min(hits) + 1]))

\* A parser without the defaults for unparseable output.
ParseWithoutDefaults(response) ==
  [category |-> MatchAfter(response, "category:", Categories),
   confidence |-> MatchAfter(response, "confidence:", Confidences)]

_parseClassificationResponse(response) ==
  LET categoryMatch == MatchAfter(response, "category:", Categories)
      confidenceMatch == MatchAfter(response, "confidence:", Confidences)
  IN [category |-> IF categoryMatch # "" THEN categoryMatch ELSE "other",
      confidence |-> IF confidenceMatch # "" THEN confidenceMatch ELSE "low"]

OrUnknown(s) == IF s = "" THEN "unknown" ELSE s

\* A classifier whose confidence looks at the message as well.
ClassificationResultByText(message, platform, response) ==
  LET parsed == _parseClassificationResponse(response)
  IN [id |-> 0,
      messageText |-> message.text,
      platform |-> OrUnknown(platform),
      author |-> OrUnknown(message.author),
      classification |-> parsed.category,
      confidence |-> IF message.text = "crash on save" THEN "high"
                     ELSE parsed.confidence,
      rawResponse |-> response]

\* The result object classifyMessage builds from the model's response.
ClassificationResult(message, platform, response) ==
  LET parsed == _parseClassificationResponse(response)
  IN [id |-> 0,
      messageText |-> message.text,
      platform |-> OrUnknown(platform),
      author |-> OrUnknown(message.author),
      classification |-> parsed.category,
      confidence |-> parsed.confidence,
      rawResponse |-> response]

\* A gate that lets every classification through.
IsActionableAlways(classification) == TRUE

\* ['bug', 'feature', 'pr_mention'].includes(classification.classification)
IsActionable(classification) ==
  classification.classification \in {"bug", "feature", "pr_mention"}

\* ------------------------------------------------------------ summarizer

\* The messages copied last to first.
OriginalMessagesReversed(messages) ==
  [i \in 1..Len(messages) |->
     [text |-> messages[Len(messages) + 1 - i].text,
      author |-> messages[Len(messages) + 1 - i].author]]

\* The text handed to the summarizer: one block per message, "Message i
\* (author):" and the text, joined by blank lines.
_formatMessagesForSummary(messages) ==
  [i \in 1..Len(messages) |->
     [index |-> i,
      author |-> IF messages[i].author = "" THEN "Unknown" ELSE messages[i].author,
      text |-> messages[i].text]]

\* originalMessages: messages.map(m => ({author, text, timestamp}))
OriginalMessages(messages) ==
  [i \in 1..Len(messages) |->
     [text |-> messages[i].text, author |-> messages[i].author]]

SummaryResult(arg, summaryText) ==
  [id |-> 0,
   threadId |-> IF arg.threadId = "" THEN "thread_now" ELSE arg.threadId,
   platform |-> OrUnknown(arg.platform),
   messageCount |-> Len(arg.messages),
   originalMessages |-> OriginalMessages(arg.messages),
   summary |-> summaryText]

\* ---------------------------------------------------------- orchestrator

\* Labels without the marker of the tool.
LabelsWithoutGhosthub(type, platform) ==
  IF platform # "" THEN <<type, Lower(platform)>> ELSE <<type>>

_generateIssueLabels(type, platform) ==
  LET typeLabel == CASE type = "bug" -> <<"bug">>
                     [] type = "feature" -> <<"enhancement">>
                     [] type = "pr_mention" -> <<"pr-related">>
                     [] OTHER -> <<>>
  IN typeLabel \o <<"ghosthub">>
       \o (IF platform # "" THEN <<Lower(platform)>> ELSE <<>>)

\* A draft that takes each id from the other record.
DraftIdsSwapped(classification, summary) ==
  [id |-> 0,
   labels |-> _generateIssueLabels(classification.classification,
                                   summary.platform),
   type |-> classification.classification,
   platform |-> summary.platform,
   messageCount |-> summary.messageCount,
   classificationId |-> summary.id,
   summaryId |-> classification.id,
   status |-> "draft",
   originalMessages |-> summary.originalMessages]

_createIssueDraft(classification, summary) ==
  [id |-> 0,
   labels |-> _generateIssueLabels(classification.classification,
                                   summary.platform),
   type |-> classification.classification,
   platform |-> summary.platform,
   messageCount |-> summary.messageCount,
   classificationId |-> classification.id,
   summaryId |-> summary.id,
   status |-> "draft",
   originalMessages |-> summary.originalMessages]

\* ------------------------------------------------------- image responses

\* Multimodal model output as tokens; the section tags are tokens too.
ImageResponses ==
  { <<"ERROR:", "TypeError x", "TEXT:", "Save", "CONTEXT:", "a dialog">>,
    <<"TEXT:", "Save">>,
    <<"no", "sections">> }

\* Image sources: a URL that loads, one whose fetch fails, a Blob, a File
\* that the FileReader cannot read, and a value of another type.
Images == {"https://ok", "https://broken", "blob", "file-unreadable", "number"}

\* Where response.match finds the tag first: 'TEXT:' is found inside
\* 'CONTEXT:' too.
FirstAt(response, tag) ==
  LET hits == {i \in 1..Len(response) :
                 \/ response[i] = tag
                 \/ tag = "TEXT:" /\ response[i] = "CONTEXT:"}
  IN IF hits = {} THEN 0 ELSE Min(hits)

\* /TAG:\s*(.+?)(?=stop|$)/s : at least one token after the tag, up to the
\* next stop tag or the end.
Section(response, tag, stops) ==
  LET at == FirstAt(response, tag)
      ends == {j \in (at + 2)..Len(response) : response[j] \in stops}
      last == IF ends = {} THEN Len(response) ELSE Min(ends) - 1
  IN IF at = 0 \/ at = Len(response) THEN <<>>
     ELSE SubSeq(response, at + 1, last)

parseMultimodalResponse(response) ==
  LET errorText == Section(response, "ERROR:", {"TEXT:", "CONTEXT:"})
  IN [error |-> "",
      text |-> Section(response, "TEXT:", {"CONTEXT:", "ERROR:"}),
      context |-> Section(response, "CONTEXT:", {}),
      errors |-> IF errorText \in {<<"[]">>, <<"none">>, <<"None">>}
                 THEN <<>> ELSE errorText]

\* An error result that lost its error field.
ImageFailureSilent(message) ==
  [error |-> "", text |-> <<>>, context |-> <<>>, errors |-> <<>>]

ImageFailure(message) ==
  [error |-> message, text |-> <<>>, context |-> <<>>, errors |-> <<>>]

\* ------------------------------------------------- call chains (control)

BatchOps ==
  {"classifyMessages", "processThreads", "processImages", "analyzeImages"}

Did(t, event) == [t EXCEPT !.trace = Append(@, event)]

\* classifyMessage up to its first await: with a session the prompt is sent
\* at once, without one initialize() first asks for the capabilities.
BeginClassify(t) ==
  IF promptSession = 0
  THEN [t EXCEPT !.pc = "cm_caps"]
  ELSE Did([t EXCEPT !.pc = "cm_prompt", !.sess = promptSession], "prompt")

\* The for-loop of a batch call: the next item, or the return of results.
NextItem(t) ==
  LET i == Len(t.results) + 1
      fresh == [t EXCEPT !.sess = 0, !.cls = NoClassification,
                         !.sum = NoSummary, !.issue = NoIssue, !.trace = <<>>,
                         !.sent = <<>>]
  IN IF i > Len(t.items)
     THEN IF t.op = "analyzeImages"
          THEN [t EXCEPT !.pc = "am_images"]
          ELSE [t EXCEPT !.pc = "done",
                         !.result = [NoResult EXCEPT !.outcome = "resolved"]]
     ELSE IF t.op = "classifyMessages"
     THEN BeginClassify([fresh EXCEPT !.arg = t.items[i]])
     ELSE IF t.op \in {"processImages", "analyzeImages"}
     THEN [fresh EXCEPT !.arg = t.items[i], !.pc = "pi_begin"]
     ELSE [fresh EXCEPT !.arg = t.items[i], !.pc = "wf_init"]

\* A batch that puts each result in front of the earlier ones.
CompletedPrepends(t, res) ==
  IF t.op \in BatchOps
  THEN NextItem([t EXCEPT !.results = <<res>> \o @])
  ELSE [t EXCEPT !.pc = "done", !.result = res]

\* The call returns res: to the background handler, or to the batch loop.
Completed(t, res) ==
  IF t.op \in BatchOps
  THEN NextItem([t EXCEPT !.results = Append(@, res)])
  ELSE [t EXCEPT !.pc = "done", !.result = res]

\* An error entry that is not marked as not actionable.
ErrorEntryActionable(t, message) ==
  [NoResult EXCEPT !.outcome = "error-entry", !.error = message,
                   !.threadId = t.arg.threadId, !.actionable = TRUE]

\* The entry a batch pushes for an item that threw.
ErrorEntry(t, message) ==
  IF t.op = "classifyMessages"
  THEN [NoResult EXCEPT
          !.outcome = "error-entry", !.error = message,
          !.classification =
             [NoClassification EXCEPT !.messageText = t.arg.messages[1].text,
                                      !.classification = "error"]]
  ELSE [NoResult EXCEPT !.outcome = "error-entry", !.error = message,
                        !.threadId = t.arg.threadId, !.actionable = FALSE]

\* A batch without its per-item catch: the first throw rejects the call.
ThrownAborts(t, message) ==
  [t EXCEPT !.pc = "done",
            !.result = [NoResult EXCEPT !.outcome = "rejected",
                                        !.error = message]]

\* An error thrown anywhere in the chain: single calls reject with it (the
\* handler answers {success: false, error}), a batch catches it per item.
Thrown(t, message) ==
  IF t.op \in BatchOps
  THEN Completed(t, ErrorEntry(t, message))
  ELSE [t EXCEPT !.pc = "done",
                 !.result = [NoResult EXCEPT !.outcome = "rejected",
                                             !.error = message]]

\* A summarizeThread without the precondition on the messages.
SummarizeCallUnchecked(t, session) ==
  Did([t EXCEPT !.pc = "st_summarize", !.sess = session,
                !.sent = _formatMessagesForSummary(t.arg.messages)],
      "summarize")

\* summarizeThread once it holds a summarizer: the precondition on the
\* messages, then the summarize call. summarizeStreaming has no such
\* precondition and calls whichever method the summarizer has.
SummarizeCall(t, session) ==
  IF t.op = "summarizeStreaming"
  THEN [t EXCEPT !.pc = "ss_call", !.sess = session]
  ELSE IF Len(t.arg.messages) = 0
  THEN Thrown(t, "Thread must contain at least one message")
  ELSE Did([t EXCEPT !.pc = "st_summarize", !.sess = session,
                     !.sent = _formatMessagesForSummary(t.arg.messages)],
           "summarize")

\* summarizeThread up to its first await.
BeginSummarize(t) ==
  IF summarizer = 0
  THEN [t EXCEPT !.pc = "st_caps"]
  ELSE SummarizeCall(t, summarizer)

\* A processThread that drafts the issue right after the classification.
AfterClassifySkipsSummary(t) ==
  IF t.op \in {"processThread", "processThreads"}
  THEN [t EXCEPT !.pc = "pt_store", !.issue = _createIssueDraft(t.cls, t.sum)]
  ELSE Completed(t, [NoResult EXCEPT !.outcome = "resolved",
                                     !.classification = t.cls,
                                     !.actionable = IsActionable(t.cls)])

\* What runs after classifyMessage has stored its result and returned.
AfterClassify(t) ==
  IF t.op \in {"processThread", "processThreads"}
  THEN IF ~IsActionable(t.cls)
       THEN Completed(t, [NoResult EXCEPT !.outcome = "resolved",
                                          !.classification = t.cls,
                                          !.actionable = FALSE])
       ELSE BeginSummarize(t)
  ELSE Completed(t, [NoResult EXCEPT !.outcome = "resolved",
                                     !.classification = t.cls,
                                     !.actionable = IsActionable(t.cls)])

\* processThread's return value once the draft is stored under issueId.
ThreadResult(t, issueId) ==
  [NoResult EXCEPT !.outcome = "resolved",
                   !.classification = t.cls,
                   !.summary = t.sum,
                   !.issueDraft = [t.issue EXCEPT !.id = issueId],
                   !.actionable = TRUE]

Busy(h) == task[h].pc # "idle"

\* The listener starts one async handler per message; a free slot with all
\* lower slots taken stands for "a new handler".
CanStart(h, limit) ==
  /\ received < limit
  /\ ~Busy(h)
  /\ \A k \in Handlers : k < h => Busy(k)

CanReceive(h) == CanStart(h, MaxRequests)

SeqsUpTo(S, n) == UNION {[1..k -> S] : k \in 0..n}

MessageArg(m, p) == [NoArg EXCEPT !.messages = <<m>>, !.platform = p]

ThreadArg(th, p) ==
  [NoArg EXCEPT !.messages = th.messages, !.threadId = th.threadId,
                !.platform = p]

\* A direct call's chain; before: the stores as the call found them.
NewTask(op, arg) == [IdleTask EXCEPT !.op = op, !.arg = arg, !.before = db]

Start(h, op, arg, pc) ==
  /\ received' = received + 1
  /\ task' = [task EXCEPT ![h] = [IdleTask EXCEPT !.op = op, !.arg = arg, !.pc = pc]]

\* ------------------------------------------------------------- requests

\* CLASSIFY_MESSAGE -> handleClassifyMessage -> aiWorkflow.processMessage
ReceiveClassifyMessage(h) ==
  /\ CanReceive(h)
  /\ \E m \in Messages, p \in Platforms :
       Start(h, "processMessage", MessageArg(m, p), "wf_init")
  /\ UNCHANGED <<extensionVars, dbVars, envVars, promptVars, summarizerVars, mmSession,
                 sessionsCreated, initialized>>

\* PROCESS_THREAD and SUMMARIZE_THREAD -> aiWorkflow.processThread
ReceiveProcessThread(h) ==
  /\ CanReceive(h)
  /\ \E th \in Threads, p \in Platforms :
       Start(h, "processThread", ThreadArg(th, p), "wf_init")
  /\ UNCHANGED <<extensionVars, dbVars, envVars, promptVars, summarizerVars, mmSession,
                 sessionsCreated, initialized>>

\* UPDATE_ISSUE_STATUS -> aiWorkflow.updateIssueStatus -> dbManager
ReceiveUpdateIssueStatus(h) ==
  /\ CanReceive(h)
  /\ \E id \in 1..keyGen["issues"], st \in StatusInputs :
       Start(h, "updateIssueStatus",
             [NoArg EXCEPT !.id = id, !.status = st], "us_get")
  /\ UNCHANGED <<extensionVars, dbVars, envVars, promptVars, summarizerVars, mmSession,
                 sessionsCreated, initialized>>

\* dbManager.deleteRecord(storeName, id)
CallDeleteRecord(h) ==
  /\ CanReceive(h)
  /\ \E st \in STORES : \E id \in DOMAIN db[st] :
       Start(h, "deleteRecord", [NoArg EXCEPT !.id = id, !.store = st], "del")
  /\ UNCHANGED <<extensionVars, dbVars, envVars, promptVars, summarizerVars, mmSession,
                 sessionsCreated, initialized>>

\* ------------------------------------------------------ direct API calls

\* promptAPI.classifyMessage(message), called on its own
CallClassifyMessage(h) ==
  /\ CanReceive(h)
  /\ received' = received + 1
  /\ \E m \in Messages, p \in Platforms :
       task' = [task EXCEPT ![h] =
         BeginClassify(NewTask("classifyMessage", MessageArg(m, p)))]
  /\ UNCHANGED <<extensionVars, dbVars, envVars, promptVars, summarizerVars, mmSession,
                 sessionsCreated, initialized>>

\* aiWorkflow.processThread(thread), called on its own
CallProcessThread(h) ==
  /\ CanReceive(h)
  /\ received' = received + 1
  /\ \E th \in Threads, p \in Platforms :
       task' = [task EXCEPT ![h] =
         [NewTask("processThread", ThreadArg(th, p)) EXCEPT !.pc = "wf_init"]]
  /\ UNCHANGED <<extensionVars, dbVars, envVars, promptVars, summarizerVars, mmSession,
                 sessionsCreated, initialized>>

\* promptAPI.classifyMessages(messages)
CallClassifyMessages(h) ==
  /\ CanStart(h, MaxBatchCalls)
  /\ received' = received + 1
  /\ \E ms \in SeqsUpTo(Messages, MaxBatch), p \in Platforms :
       task' = [task EXCEPT ![h] =
         NextItem([NewTask("classifyMessages", NoArg) EXCEPT
            !.items = [i \in 1..Len(ms) |-> MessageArg(ms[i], p)]])]
  /\ UNCHANGED <<extensionVars, dbVars, envVars, promptVars, summarizerVars, mmSession,
                 sessionsCreated, initialized>>

\* aiWorkflow.processThreads(threads)
CallProcessThreads(h) ==
  /\ CanStart(h, MaxBatchCalls)
  /\ received' = received + 1
  /\ \E ths \in SeqsUpTo(Threads, MaxBatch), p \in Platforms :
       task' = [task EXCEPT ![h] =
         NextItem([NewTask("processThreads", NoArg) EXCEPT
            !.items = [i \in 1..Len(ths) |-> ThreadArg(ths[i], p)]])]
  /\ UNCHANGED <<extensionVars, dbVars, envVars, promptVars, summarizerVars, mmSession,
                 sessionsCreated, initialized>>

\* summarizerAPI.summarizeThread(thread), called on its own
CallSummarizeThread(h) ==
  /\ CanReceive(h)
  /\ received' = received + 1
  /\ \E th \in Threads, p \in Platforms :
       task' = [task EXCEPT ![h] =
         BeginSummarize(NewTask("summarizeThread", ThreadArg(th, p)))]
  /\ UNCHANGED <<extensionVars, dbVars, envVars, promptVars, summarizerVars, mmSession,
                 sessionsCreated, initialized>>

\* The handler has answered (sendResponse) and its call chain is gone.
Respond(h) ==
  /\ task[h].pc = "done"
  /\ task' = [task EXCEPT ![h] = IdleTask]
  /\ UNCHANGED <<extensionVars, dbVars, envVars, promptVars, summarizerVars, mmSession,
                 sessionsCreated, initialized, received>>

\* ------------------------------------------------- AIWorkflowManager steps

\* An availability report that is ready when either capability is there.
AvailabilityReadyIfAny(promptAvailable, summarizerAvailable) ==
  [promptAPI |-> promptAvailable, summarizerAPI |-> summarizerAvailable,
   ready |-> promptAvailable \/ summarizerAvailable]

\* What initialize() and getAvailability() return.
AvailabilityResult(promptAvailable, summarizerAvailable) ==
  [promptAPI |-> promptAvailable, summarizerAPI |-> summarizerAvailable,
   ready |-> promptAvailable /\ summarizerAvailable]

\* aiWorkflow.initialize(): when initialized it returns getAvailability(),
\* else both checkAvailability() run, initialized is set and their answers
\* are returned. As `await this.initialize()` of processMessage /
\* processThread it is followed by the code up to the next await.
WorkflowInitialize(h) ==
  LET t == task[h]
      promptAvailable ==
        IF initialized THEN promptIsAvailable ELSE aiLanguageModel = "readily"
      summarizerAvailable ==
        IF initialized THEN summarizerIsAvailable ELSE aiSummarizer = "readily"
  IN
  /\ t.pc = "wf_init"
  /\ promptIsAvailable' = promptAvailable
  /\ summarizerIsAvailable' = summarizerAvailable
  /\ initialized' = TRUE
  /\ task' = [task EXCEPT ![h] =
       IF t.op = "initialize"
       THEN Completed(t, [NoResult EXCEPT
              !.outcome = "resolved",
              !.value = AvailabilityResult(promptAvailable, summarizerAvailable)])
       ELSE IF t.op \in {"processThread", "processThreads"} /\ Len(t.arg.messages) = 0
       THEN Thrown(t, "Thread must contain at least one message")
       ELSE BeginClassify(t)]
  /\ UNCHANGED <<extensionVars, dbVars, envVars, promptSession, summarizer, mmSession,
                 sessionsCreated, received>>

\* aiWorkflow.initialize(), called on its own (the worker's startup)
CallInitialize(h) ==
  /\ CanReceive(h)
  /\ received' = received + 1
  /\ task' = [task EXCEPT ![h] =
       [NewTask("initialize", NoArg) EXCEPT !.pc = "wf_init"]]
  /\ UNCHANGED <<extensionVars, dbVars, envVars, promptVars, summarizerVars, mmSession,
                 sessionsCreated, initialized>>

\* CHECK_API_AVAILABILITY -> aiWorkflow.getAvailability(): the managers'
\* isAvailable flags, without a new check.
CallGetAvailability(h) ==
  /\ CanReceive(h)
  /\ received' = received + 1
  /\ task' = [task EXCEPT ![h] =
       Completed(NewTask("getAvailability", NoArg),
                 [NoResult EXCEPT
                    !.outcome = "resolved",
                    !.value = AvailabilityResult(promptIsAvailable,
                                                 summarizerIsAvailable)])]
  /\ UNCHANGED <<extensionVars, dbVars, envVars, promptVars, summarizerVars, mmSession,
                 sessionsCreated, initialized>>

\* aiWorkflow.cleanup(), up to the await of the two destroy() calls
CallCleanup(h) ==
  /\ CanReceive(h)
  /\ received' = received + 1
  /\ task' = [task EXCEPT ![h] = [NewTask("cleanup", NoArg) EXCEPT !.pc = "cleanup"]]
  /\ UNCHANGED <<extensionVars, dbVars, envVars, promptVars, summarizerVars, mmSession,
                 sessionsCreated, initialized>>

\* cleanup(): both destroy() calls are through (each drops its session, or
\* keeps it when session.destroy() failed; the isAvailable flags stay), and
\* initialized is reset.
Cleanup(h) ==
  LET t == task[h] IN
  /\ t.pc = "cleanup"
  /\ promptSession' \in {0, promptSession}
  /\ summarizer' \in {0, summarizer}
  /\ initialized' = FALSE
  /\ task' = [task EXCEPT ![h] =
       Completed(t, [NoResult EXCEPT !.outcome = "resolved"])]
  /\ UNCHANGED <<extensionVars, dbVars, envVars, promptIsAvailable, summarizerIsAvailable,
                 mmSession, sessionsCreated, received>>

\* The browser's capabilities change (a model is downloaded or removed).
CapabilitiesChange ==
  /\ \E a \in Availabilities, b \in {"readily", "no"} :
       /\ <<a, b>> # <<aiLanguageModel, aiSummarizer>>
       /\ aiLanguageModel' = a
       /\ aiSummarizer' = b
  /\ UNCHANGED <<extensionVars, dbVars, promptVars, summarizerVars, mmSession,
                 sessionsCreated, initialized, received, task>>

\* ---------------------------------------------------- PromptAPIManager steps

\* initialize(): checkAvailability() has its answer.
PromptCheckAvailability(h) ==
  LET t == task[h] IN
  /\ t.pc = "cm_caps"
  /\ promptIsAvailable' = (aiLanguageModel = "readily")
  /\ task' = [task EXCEPT ![h] =
       IF aiLanguageModel = "readily"
       THEN [t EXCEPT !.pc = "cm_create"]
       ELSE Thrown(t, "Prompt API is not available")]
  /\ UNCHANGED <<extensionVars, dbVars, envVars, promptSession, summarizerVars, mmSession,
                 sessionsCreated, initialized, received>>

\* initialize(): languageModel.create() resolved; classifyMessage goes on
\* and sends its prompt on this.session.
PromptCreateSession(h) ==
  LET t == task[h] IN
  /\ t.pc = "cm_create"
  /\ sessionsCreated' = sessionsCreated + 1
  /\ promptSession' = sessionsCreated + 1
  /\ task' = [task EXCEPT ![h] =
       Did([t EXCEPT !.pc = "cm_prompt", !.sess = sessionsCreated + 1], "prompt")]
  /\ UNCHANGED <<extensionVars, dbVars, envVars, promptIsAvailable, summarizerVars, mmSession,
                 initialized, received>>

\* session.prompt() resolved with a response: parse, build the result and
\* hand it to the store.
\* A classifier that reads the thread's last message.
PromptRespondedLast(h, response) ==
  LET t == task[h] IN
  /\ t.pc = "cm_prompt"
  /\ task' = [task EXCEPT ![h] =
         [t EXCEPT !.pc = "cm_store", !.sess = 0,
                   !.cls = ClassificationResult(t.arg.messages[Len(t.arg.messages)],
                                                t.arg.platform, response)]]
  /\ UNCHANGED <<extensionVars, dbVars, envVars, promptVars, summarizerVars, mmSession,
                 sessionsCreated, initialized, received>>

PromptResponded(h, response) ==
  LET t == task[h] IN
  /\ t.pc = "cm_prompt"
  /\ task' = [task EXCEPT ![h] =
         [t EXCEPT !.pc = "cm_store", !.sess = 0,
                   !.cls = ClassificationResult(t.arg.messages[1],
                                                t.arg.platform, response)]]
  /\ UNCHANGED <<extensionVars, dbVars, envVars, promptVars, summarizerVars, mmSession,
                 sessionsCreated, initialized, received>>

PromptResponse(h) == \E response \in RawResponses : PromptResponded(h, response)

\* The same step with the model free to answer anything.
PromptResponseAny(h) ==
  \E response \in SeqsUpTo(ResponseTokens, MaxResponseLen) :
    PromptResponded(h, response)

\* session.prompt() rejected.
PromptError(h) ==
  LET t == task[h] IN
  /\ t.pc = "cm_prompt"
  /\ task' = [task EXCEPT ![h] = Thrown([t EXCEPT !.sess = 0], "prompt failed")]
  /\ UNCHANGED <<extensionVars, dbVars, envVars, promptVars, summarizerVars, mmSession,
                 sessionsCreated, initialized, received>>

\* A classifyMessage that returns its result without storing it.
StoreClassificationSkipped(h) ==
  LET t == task[h] IN
  /\ t.pc = "cm_store"
  /\ task' = [task EXCEPT ![h] = AfterClassify(Did(t, "storeClassification"))]
  /\ UNCHANGED <<extensionVars, dbVars, envVars, promptVars, summarizerVars, mmSession,
                 sessionsCreated, initialized, received>>

\* dbManager.storeClassification(result); result.id = id; return result.
StoreClassification(h) ==
  LET t == task[h]
      id == NewKey("classifications")
  IN
  /\ t.pc = "cm_store"
  /\ _addRecord("classifications", t.cls)
  /\ task' = [task EXCEPT ![h] =
       AfterClassify(Did([t EXCEPT !.cls.id = id], "storeClassification"))]
  /\ UNCHANGED <<extensionVars, envVars, promptVars, summarizerVars, mmSession,
                 sessionsCreated, initialized, received>>
\* ------------------------------------------------ SummarizerAPIManager steps

\* initialize(): checkAvailability() has its answer.
SummarizerCheckAvailability(h) ==
  LET t == task[h] IN
  /\ t.pc = "st_caps"
  /\ summarizerIsAvailable' = (aiSummarizer = "readily")
  /\ task' = [task EXCEPT ![h] =
       IF aiSummarizer = "readily"
       THEN [t EXCEPT !.pc = "st_create"]
       ELSE Thrown(t, "Summarizer API is not available")]
  /\ UNCHANGED <<extensionVars, dbVars, envVars, promptVars, summarizer, mmSession,
                 sessionsCreated, initialized, received>>

\* initialize(): summarizer.create() resolved; summarizeThread goes on.
SummarizerCreate(h) ==
  LET t == task[h] IN
  /\ t.pc = "st_create"
  /\ sessionsCreated' = sessionsCreated + 1
  /\ summarizer' = sessionsCreated + 1
  /\ task' = [task EXCEPT ![h] = SummarizeCall(t, sessionsCreated + 1)]
  /\ UNCHANGED <<extensionVars, dbVars, envVars, promptVars, summarizerIsAvailable, mmSession,
                 initialized, received>>

\* summarizer.summarize() resolved: build the result, hand it to the store.
SummarizeResponse(h) ==
  LET t == task[h] IN
  /\ t.pc = "st_summarize"
  /\ \E text \in SummaryTexts :
       task' = [task EXCEPT ![h] =
         [t EXCEPT !.pc = "st_store", !.sess = 0,
                   !.sum = SummaryResult(t.arg, text)]]
  /\ UNCHANGED <<extensionVars, dbVars, envVars, promptVars, summarizerVars, mmSession,
                 sessionsCreated, initialized, received>>

\* summarizer.summarize() rejected.
SummarizeError(h) ==
  LET t == task[h] IN
  /\ t.pc = "st_summarize"
  /\ task' = [task EXCEPT ![h] = Thrown([t EXCEPT !.sess = 0], "summarize failed")]
  /\ UNCHANGED <<extensionVars, dbVars, envVars, promptVars, summarizerVars, mmSession,
                 sessionsCreated, initialized, received>>

\* summarizerAPI.summarizeStreaming(text, onChunk), up to its first await.
CallSummarizeStreaming(h) ==
  /\ CanStart(h, MaxStreamCalls)
  /\ received' = received + 1
  /\ task' = [task EXCEPT ![h] =
       BeginSummarize(NewTask("summarizeStreaming", NoArg))]
  /\ UNCHANGED <<extensionVars, dbVars, envVars, promptVars, summarizerVars, mmSession,
                 sessionsCreated, initialized>>

\* A fallback that returns the summary without invoking onChunk.
SummarizeFallbackSilent(h) ==
  LET t == task[h] IN
  /\ t.pc = "ss_call"
  /\ \E stream \in SummaryStreams \ {<<>>} :
       LET fullSummary == stream[Len(stream)] IN
       task' = [task EXCEPT ![h] =
         Completed(Did([t EXCEPT !.sess = 0], "summarize"),
                   [NoResult EXCEPT !.outcome = "resolved",
                                    !.value = fullSummary])]
  /\ UNCHANGED <<extensionVars, dbVars, envVars, promptVars, summarizerVars, mmSession,
                 sessionsCreated, initialized, received>>

\* The summarizer has no summarizeStreaming: summarize(text) resolved with
\* the full summary, onChunk gets it and it is returned.
SummarizeFallback(h) ==
  LET t == task[h] IN
  /\ t.pc = "ss_call"
  /\ \E stream \in SummaryStreams \ {<<>>} :
       LET fullSummary == stream[Len(stream)] IN
       task' = [task EXCEPT ![h] =
         Completed(Did([t EXCEPT !.sess = 0, !.chunks = <<fullSummary>>],
                       "summarize"),
                   [NoResult EXCEPT !.outcome = "resolved",
                                    !.value = fullSummary])]
  /\ UNCHANGED <<extensionVars, dbVars, envVars, promptVars, summarizerVars, mmSession,
                 sessionsCreated, initialized, received>>

\* The summarizer has summarizeStreaming and it resolved with a stream
\* (sent: what the stream is going to deliver); the first read is pending.
StreamOpened(h) ==
  LET t == task[h] IN
  /\ t.pc = "ss_call"
  /\ \E stream \in SummaryStreams :
       task' = [task EXCEPT ![h] =
         Did([t EXCEPT !.pc = "ss_read", !.sent = stream], "summarizeStreaming")]
  /\ UNCHANGED <<extensionVars, dbVars, envVars, promptVars, summarizerVars, mmSession,
                 sessionsCreated, initialized, received>>

\* reader.read() resolved: with a value, fullSummary = value and
\* onChunk(value), then the next read; with done, fullSummary is returned.
StreamRead(h) ==
  LET t == task[h]
      n == Len(t.chunks)
  IN
  /\ t.pc = "ss_read"
  /\ task' = [task EXCEPT ![h] =
       IF n < Len(t.sent)
       THEN [t EXCEPT !.chunks = Append(@, t.sent[n + 1])]
       ELSE Completed([t EXCEPT !.sess = 0],
              [NoResult EXCEPT
                 !.outcome = "resolved",
                 !.value = IF n = 0 THEN <<>> ELSE t.chunks[n]])]
  /\ UNCHANGED <<extensionVars, dbVars, envVars, promptVars, summarizerVars, mmSession,
                 sessionsCreated, initialized, received>>

\* summarize(), summarizeStreaming() or a read rejected: the catch rethrows.
StreamError(h) ==
  LET t == task[h] IN
  /\ t.pc \in {"ss_call", "ss_read"}
  /\ task' = [task EXCEPT ![h] = Thrown([t EXCEPT !.sess = 0], "summarize failed")]
  /\ UNCHANGED <<extensionVars, dbVars, envVars, promptVars, summarizerVars, mmSession,
                 sessionsCreated, initialized, received>>

\* What runs after summarizeThread has stored its result and returned:
\* processThread builds the draft and hands it to storeIssue.
AfterSummarize(t) ==
  IF t.op \in {"processThread", "processThreads"}
  THEN [t EXCEPT !.pc = "pt_store", !.issue = _createIssueDraft(t.cls, t.sum)]
  ELSE Completed(t, [NoResult EXCEPT !.outcome = "resolved", !.summary = t.sum])

\* dbManager.storeSummary(result); result.id = id; return result.
StoreSummary(h) ==
  LET t == task[h]
      id == NewKey("summaries")
  IN
  /\ t.pc = "st_store"
  /\ _addRecord("summaries", t.sum)
  /\ task' = [task EXCEPT ![h] =
       AfterSummarize(Did([t EXCEPT !.sum.id = id], "storeSummary"))]
  /\ UNCHANGED <<extensionVars, envVars, promptVars, summarizerVars, mmSession,
                 sessionsCreated, initialized, received>>

\* dbManager.storeIssue(issueDraft), then processThread returns.
StoreIssue(h) ==
  LET t == task[h]
      issueId == NewKey("issues")
  IN
  /\ t.pc = "pt_store"
  /\ _addRecord("issues", IssueToStore(t.issue))
  /\ task' = [task EXCEPT ![h] =
       Completed(Did(t, "storeIssue"), ThreadResult(t, issueId))]
  /\ UNCHANGED <<extensionVars, envVars, promptVars, summarizerVars, mmSession,
                 sessionsCreated, initialized, received>>

\* ------------------------------------------------- IndexedDBManager steps

\* updateIssueStatus: the readonly transaction's get(id) has its answer.
\* With a record, the put of the record with its new status is requested.
UpdateIssueStatusGet(h) ==
  LET t == task[h] IN
  /\ t.pc = "us_get"
  /\ task' = [task EXCEPT ![h] =
       IF t.arg.id \in DOMAIN db["issues"]
       THEN [t EXCEPT !.pc = "us_put", !.issue = db["issues"][t.arg.id]]
       ELSE Completed(t, [NoResult EXCEPT !.outcome = "resolved"])]
  /\ UNCHANGED <<extensionVars, dbVars, envVars, promptVars, summarizerVars, mmSession,
                 sessionsCreated, initialized, received>>

\* updateIssueStatus: the readwrite transaction's put(issue) is done.
UpdateIssueStatusPut(h) ==
  LET t == task[h] IN
  /\ t.pc = "us_put"
  /\ _updateRecord("issues", StatusUpdated(t.issue, t.arg.status))
  /\ task' = [task EXCEPT ![h] =
       Completed(t, [NoResult EXCEPT !.outcome = "resolved"])]
  /\ UNCHANGED <<extensionVars, envVars, promptVars, summarizerVars, mmSession,
                 sessionsCreated, initialized, received>>

\* deleteRecord: the readwrite transaction's delete(id) is done.
DeleteRecord(h) ==
  LET t == task[h] IN
  /\ t.pc = "del"
  /\ _deleteRecord(t.arg.store, t.arg.id)
  /\ task' = [task EXCEPT ![h] =
       Completed(t, [NoResult EXCEPT !.outcome = "resolved"])]
  /\ UNCHANGED <<extensionVars, envVars, promptVars, summarizerVars, mmSession,
                 sessionsCreated, initialized, received>>
\* ------------------------------------------------------ MultimodalAI steps

\* MessageAnalyzer.initialize() returns true whatever the MultimodalAI's
\* initialize() returned.
AnalyzerInitialized(t) ==
  [t EXCEPT !.pc = "done",
            !.result = [NoResult EXCEPT !.outcome = "resolved",
                                        !.value = <<TRUE>>]]

ImageResult(t, image) ==
  IF t.op = "analyzer.initialize" THEN AnalyzerInitialized(t)
  ELSE Completed(t, [NoResult EXCEPT !.outcome = "resolved", !.image = image])

\* A processImage without its catch: a source of a wrong type throws.
ConvertImageThrows(t) ==
  IF t.arg.image \in {"https://ok", "https://broken", "blob", "file-unreadable"}
  THEN [t EXCEPT !.pc = "pi_load"]
  ELSE Thrown(t, "Invalid image source type")

\* processImage with a session: the source is turned into a data URL (a
\* fetch or a FileReader, both awaited); any other type throws at once and
\* the catch returns the error result.
ConvertImage(t) ==
  IF t.arg.image \in {"https://ok", "https://broken", "blob", "file-unreadable"}
  THEN [t EXCEPT !.pc = "pi_load"]
  ELSE ImageResult(t, ImageFailure("Invalid image source type"))

\* processImage up to its first await: without a session initialize() runs,
\* which returns false at once when window.ai is missing.
BeginImage(t) ==
  IF mmSession # 0 THEN ConvertImage(t)
  ELSE IF aiLanguageModel = "absent"
  THEN ImageResult(t, ImageFailure("Multimodal AI not available"))
  ELSE [t EXCEPT !.pc = "pi_caps"]

\* multimodalAI.processImage(imageSource), up to its first await.
CallProcessImage(h) ==
  /\ CanReceive(h)
  /\ received' = received + 1
  /\ \E image \in Images :
       task' = [task EXCEPT ![h] =
         BeginImage(NewTask("processImage", [NoArg EXCEPT !.image = image]))]
  /\ UNCHANGED <<extensionVars, dbVars, envVars, promptVars, summarizerVars, mmSession,
                 sessionsCreated, initialized>>

\* multimodalAI.processImages(images): the loop awaits processImage(image)
\* for one image after the other and pushes each result.
CallProcessImages(h) ==
  /\ CanStart(h, MaxBatchCalls)
  /\ received' = received + 1
  /\ \E images \in SeqsUpTo(Images, MaxBatch) :
       task' = [task EXCEPT ![h] =
         NextItem([NewTask("processImages", NoArg) EXCEPT
            !.items = [i \in 1..Len(images) |->
                         [NoArg EXCEPT !.image = images[i]]]])]
  /\ UNCHANGED <<extensionVars, dbVars, envVars, promptVars, summarizerVars, mmSession,
                 sessionsCreated, initialized>>

\* processImages: processImage runs for the next image, up to its first await.
ImageBegin(h) ==
  LET t == task[h] IN
  /\ t.pc = "pi_begin"
  /\ task' = [task EXCEPT ![h] = BeginImage(t)]
  /\ UNCHANGED <<extensionVars, dbVars, envVars, promptVars, summarizerVars, mmSession,
                 sessionsCreated, initialized, received>>

\* initialize(): capabilities() has its answer.
ImageCapabilities(h) ==
  LET t == task[h] IN
  /\ t.pc = "pi_caps"
  /\ task' = [task EXCEPT ![h] =
       IF aiLanguageModel = "no"
       THEN ImageResult(t, ImageFailure("Multimodal AI not available"))
       ELSE [t EXCEPT !.pc = "pi_create"]]
  /\ UNCHANGED <<extensionVars, dbVars, envVars, promptVars, summarizerVars, mmSession,
                 sessionsCreated, initialized, received>>

\* initialize(): languageModel.create() resolved.
ImageCreateSession(h) ==
  LET t == task[h] IN
  /\ t.pc = "pi_create"
  /\ sessionsCreated' = sessionsCreated + 1
  /\ mmSession' = sessionsCreated + 1
  /\ task' = [task EXCEPT ![h] =
       IF t.op = "analyzer.initialize" THEN AnalyzerInitialized(t)
       ELSE ConvertImage(t)]
  /\ UNCHANGED <<extensionVars, dbVars, envVars, promptVars, summarizerVars, initialized,
                 received>>

\* initialize(): languageModel.create() rejected (the model is not ready);
\* initialize catches it and returns false.
ImageCreateError(h) ==
  LET t == task[h] IN
  /\ t.pc = "pi_create"
  /\ aiLanguageModel # "readily"
  /\ task' = [task EXCEPT ![h] =
       ImageResult(t, ImageFailure("Multimodal AI not available"))]
  /\ UNCHANGED <<extensionVars, dbVars, envVars, promptVars, summarizerVars, mmSession,
                 sessionsCreated, initialized, received>>

\* The data URL is there and the prompt is sent, or the fetch failed, or
\* the FileReader failed: blobToDataURL rejects with the reader's error
\* event, which has no message, so the catch returns error: undefined ("").
ImageLoaded(h) ==
  LET t == task[h] IN
  /\ t.pc = "pi_load"
  /\ task' = [task EXCEPT ![h] =
       IF t.arg.image = "https://broken"
       THEN ImageResult(t, ImageFailure("Failed to fetch"))
       ELSE IF t.arg.image = "file-unreadable"
       THEN ImageResult(t, ImageFailure(""))
       ELSE Did([t EXCEPT !.pc = "pi_prompt", !.sess = mmSession], "prompt")]
  /\ UNCHANGED <<extensionVars, dbVars, envVars, promptVars, summarizerVars, mmSession,
                 sessionsCreated, initialized, received>>

\* session.prompt(text, {image}) resolved: parse the response.
ImageResponse(h) ==
  LET t == task[h] IN
  /\ t.pc = "pi_prompt"
  /\ \E response \in ImageResponses :
       task' = [task EXCEPT ![h] =
         ImageResult([t EXCEPT !.sess = 0], parseMultimodalResponse(response))]
  /\ UNCHANGED <<extensionVars, dbVars, envVars, promptVars, summarizerVars, mmSession,
                 sessionsCreated, initialized, received>>

\* session.prompt() rejected; the catch returns the error result.
ImagePromptError(h) ==
  LET t == task[h] IN
  /\ t.pc = "pi_prompt"
  /\ task' = [task EXCEPT ![h] =
       ImageResult([t EXCEPT !.sess = 0], ImageFailure("prompt failed"))]
  /\ UNCHANGED <<extensionVars, dbVars, envVars, promptVars, summarizerVars, mmSession,
                 sessionsCreated, initialized, received>>

\* ------------------------------------------------------- specification

Init ==
  /\ db = [s \in AllStores |-> <<>>]
  /\ keyGen = [s \in AllStores |-> 0]
  /\ aiLanguageModel \in Availabilities
  /\ aiSummarizer \in {"readily", "no"}
  /\ promptSession = 0
  /\ promptIsAvailable = FALSE
  /\ summarizer = 0
  /\ summarizerIsAvailable = FALSE
  /\ mmSession = 0
  /\ sessionsCreated = 0
  /\ initialized = FALSE
  /\ analyzerMultimodalAI = FALSE
  /\ lastProcessedTimestamp = 0
  /\ slackDom = <<>>
  /\ slackSent = <<>>
  /\ drafts = <<>>
  /\ contentMessages = <<>>
  /\ contentLog = <<>>
  /\ githubToken = ""
  /\ savedToken = ""
  /\ received = 0
  /\ task = [h \in Handlers |-> IdleTask]

\* The background worker: the requests its listener handles (and the store's
\* delete), each in a handler of its own, interleaved at the awaits.
Next ==
  \E h \in Handlers :
    \/ ReceiveClassifyMessage(h)
    \/ ReceiveProcessThread(h)
    \/ ReceiveUpdateIssueStatus(h)
    \/ CallDeleteRecord(h)
    \/ Respond(h)
    \/ WorkflowInitialize(h)
    \/ PromptCheckAvailability(h)
    \/ PromptCreateSession(h)
    \/ PromptResponse(h)
    \/ PromptError(h)
    \/ StoreClassification(h)
    \/ SummarizerCheckAvailability(h)
    \/ SummarizerCreate(h)
    \/ SummarizeResponse(h)
    \/ SummarizeError(h)
    \/ StoreSummary(h)
    \/ StoreIssue(h)
    \/ UpdateIssueStatusGet(h)
    \/ UpdateIssueStatusPut(h)
    \/ DeleteRecord(h)

Spec == Init /\ [][Next]_vars

\* One caller using the managers' functions directly, one call at a time.
Caller == CHOOSE h \in Handlers : \A g \in Handlers : h <= g

NextCalls ==
  \/ CallClassifyMessage(Caller)
  \/ CallProcessThread(Caller)
  \/ WorkflowInitialize(Caller)
  \/ StoreIssue(Caller)
  \/ CallSummarizeThread(Caller)
  \/ CallProcessImage(Caller)
  \/ Respond(Caller)
  \/ PromptCheckAvailability(Caller)
  \/ PromptCreateSession(Caller)
  \/ PromptResponse(Caller)
  \/ PromptError(Caller)
  \/ StoreClassification(Caller)
  \/ SummarizerCheckAvailability(Caller)
  \/ SummarizerCreate(Caller)
  \/ SummarizeResponse(Caller)
  \/ SummarizeError(Caller)
  \/ StoreSummary(Caller)
  \/ ImageCapabilities(Caller)
  \/ ImageCreateSession(Caller)
  \/ ImageCreateError(Caller)
  \/ ImageLoaded(Caller)
  \/ ImageResponse(Caller)
  \/ ImagePromptError(Caller)

SpecCalls == Init /\ [][NextCalls]_vars

\* One caller running a batch: classifyMessages or processThreads.
NextBatch ==
  \/ CallClassifyMessages(Caller)
  \/ CallProcessThreads(Caller)
  \/ Respond(Caller)
  \/ WorkflowInitialize(Caller)
  \/ PromptCheckAvailability(Caller)
  \/ PromptCreateSession(Caller)
  \/ PromptResponse(Caller)
  \/ PromptError(Caller)
  \/ StoreClassification(Caller)
  \/ SummarizerCheckAvailability(Caller)
  \/ SummarizerCreate(Caller)
  \/ SummarizeResponse(Caller)
  \/ SummarizeError(Caller)
  \/ StoreSummary(Caller)
  \/ StoreIssue(Caller)

SpecBatch == Init /\ [][NextBatch]_vars

\* One caller of processImage and processImages.
NextImages ==
  \/ CallProcessImage(Caller)
  \/ CallProcessImages(Caller)
  \/ Respond(Caller)
  \/ ImageBegin(Caller)
  \/ ImageCapabilities(Caller)
  \/ ImageCreateSession(Caller)
  \/ ImageCreateError(Caller)
  \/ ImageLoaded(Caller)
  \/ ImageResponse(Caller)
  \/ ImagePromptError(Caller)

SpecImages == Init /\ [][NextImages]_vars

\* --------------------------------------------------------- MessageAnalyzer

\* Words of a message text handed to the analyzer (the text is the words
\* joined by single blanks).
AnalyzerWords ==
  {"Crash", "Feature", "request", "pull", "express", "not", "working", "hello"}

\* Words in one text.
MaxWords == 2

\* The keywords classifyMessage looks for, each as a sequence of words.
Lexicon(type) ==
  CASE type = "bug" ->
         {<<"error">>, <<"bug">>, <<"broken">>, <<"crash">>, <<"issue">>,
          <<"not", "working">>}
    [] type = "feature" ->
         {<<"feature">>, <<"enhancement">>, <<"should", "add">>,
          <<"would", "be", "nice">>, <<"request">>}
    [] type = "pr-mention" ->
         {<<"pr">>, <<"pull", "request">>, <<"merge">>}

\* word.includes(keyword) for the words above: "express" contains "pr".
WordIncludes(word, keyword) ==
  word = keyword \/ (word = "express" /\ keyword = "pr")

\* text.toLowerCase().includes(keyword)
Includes(text, keyword) ==
  \E i \in 1..(Len(text) - Len(keyword) + 1) :
    \A j \in 1..Len(keyword) :
      IF Len(keyword) = 1
      THEN WordIncludes(Lower(text[i]), keyword[1])
      ELSE Lower(text[i + j - 1]) = keyword[j]

IncludesAny(text, type) == \E keyword \in Lexicon(type) : Includes(text, keyword)

\* A classifier that looks for feature requests first.
AnalyzerClassifyFeatureFirst(analysis) ==
  IF IncludesAny(analysis.text, "feature") THEN "feature"
  ELSE IF analysis.hasErrors \/ IncludesAny(analysis.text, "bug") THEN "bug"
  ELSE IF IncludesAny(analysis.text, "pr-mention") THEN "pr-mention"
  ELSE "general"

\* MessageAnalyzer.classifyMessage(analysis)
AnalyzerClassifyMessage(analysis) ==
  IF analysis.hasErrors \/ IncludesAny(analysis.text, "bug") THEN "bug"
  ELSE IF IncludesAny(analysis.text, "feature") THEN "feature"
  ELSE IF IncludesAny(analysis.text, "pr-mention") THEN "pr-mention"
  ELSE "general"

\* analyzeMessage: the analysis starts with type 'unknown'; hasErrors is
\* what the image analysis found; then analysis.type = classifyMessage(analysis).
CallAnalyzeMessage(h) ==
  /\ CanReceive(h)
  /\ received' = received + 1
  /\ \E text \in SeqsUpTo(AnalyzerWords, MaxWords), hasErrors \in BOOLEAN :
       LET analysis == [text |-> text, hasErrors |-> hasErrors, type |-> "unknown"]
           t == [NewTask("analyzeMessage", NoArg) EXCEPT !.sent = <<analysis>>]
       IN task' = [task EXCEPT ![h] =
            Completed(t, [NoResult EXCEPT
                            !.outcome = "resolved",
                            !.value = AnalyzerClassifyMessage(analysis)])]
  /\ UNCHANGED <<extensionVars, dbVars, envVars, promptVars, summarizerVars, mmSession,
                 sessionsCreated, initialized>>

\* Texts of messages that come with images.
AnalyzedTexts == {<<>>, <<"hello">>, <<"Feature", "request">>}

\* analysis.errors.push(...img.errors) for each image with errors, in order.
RECURSIVE ImageErrors(_)
ImageErrors(images) ==
  IF images = <<>> THEN <<>>
  ELSE Head(images).errors \o ImageErrors(Tail(images))

\* An analysis that stops collecting at the first image that failed.
AnalysisUntilFailure(text, results) ==
  LET all == [i \in 1..Len(results) |-> results[i].image]
      failed == {i \in 1..Len(all) : all[i].error # ""}
      images == IF failed = {} THEN all ELSE SubSeq(all, 1, Min(failed) - 1)
      errors == ImageErrors(images)
  IN [text |-> text, images |-> images, hasErrors |-> errors # <<>>,
      errors |-> errors,
      type |-> AnalyzerClassifyMessage([text |-> text,
                                        hasErrors |-> errors # <<>>])]

\* The analysis analyzeMessage returns: the images' results, hasErrors and
\* errors from the images that have errors, and the type classifyMessage
\* gives to this analysis.
Analysis(text, results) ==
  LET images == [i \in 1..Len(results) |-> results[i].image]
      hasErrors == \E i \in 1..Len(images) : Len(images[i].errors) > 0
  IN [text |-> text, images |-> images, hasErrors |-> hasErrors,
      errors |-> ImageErrors(images),
      type |-> AnalyzerClassifyMessage([text |-> text, hasErrors |-> hasErrors])]

\* MessageAnalyzer.initialize(): with MultimodalAI loaded, this.multimodalAI
\* = new MultimodalAI() (its session null) and its initialize() is awaited,
\* which returns false at once when window.ai is missing.
CallAnalyzerInitialize(h) ==
  /\ CanReceive(h)
  /\ received' = received + 1
  /\ \E loaded \in BOOLEAN :
       LET t == NewTask("analyzer.initialize", NoArg) IN
       IF loaded
       THEN /\ analyzerMultimodalAI' = TRUE
            /\ mmSession' = 0
            /\ task' = [task EXCEPT ![h] =
                 IF aiLanguageModel = "absent" THEN AnalyzerInitialized(t)
                 ELSE [t EXCEPT !.pc = "pi_caps"]]
       ELSE /\ UNCHANGED <<analyzerMultimodalAI, mmSession>>
            /\ task' = [task EXCEPT ![h] = AnalyzerInitialized(t)]
  /\ UNCHANGED <<contentVars, tokenVars, slackVars, drafts, dbVars, envVars, promptVars,
                 summarizerVars, sessionsCreated, initialized>>

\* analyzeMessage(messageData) with images: analyzeImages runs only when
\* there are images and this.multimodalAI is set; its loop awaits
\* processImage(image) for one image after the other (each item carries the
\* message it is attached to).
CallAnalyzeMessageImages(h) ==
  /\ CanReceive(h)
  /\ received' = received + 1
  /\ \E text \in AnalyzedTexts, images \in SeqsUpTo(Images, MaxBatch) :
       LET t == [NewTask("analyzeImages", NoArg) EXCEPT
                   !.items = [i \in 1..Len(images) |->
                                [NoArg EXCEPT !.image = images[i],
                                              !.messages = <<Msg(text, "")>>]]]
       IN task' = [task EXCEPT ![h] =
            IF Len(images) > 0 /\ analyzerMultimodalAI
            THEN NextItem(t)
            ELSE [t EXCEPT !.pc = "done",
                           !.result = [NoResult EXCEPT
                                         !.outcome = "resolved",
                                         !.value = Analysis(text, <<>>)]]]
  /\ UNCHANGED <<extensionVars, dbVars, envVars, promptVars, summarizerVars,
                 mmSession, sessionsCreated, initialized>>

\* analyzeImages has returned its results: the errors are collected, the
\* type is set and the analysis returned.
AnalyzeImagesDone(h) ==
  LET t == task[h] IN
  /\ t.pc = "am_images"
  /\ task' = [task EXCEPT ![h] =
       [t EXCEPT !.pc = "done",
                 !.result = [NoResult EXCEPT
                               !.outcome = "resolved",
                               !.value = Analysis(t.arg.messages[1].text,
                                                  t.results)]]]
  /\ UNCHANGED <<extensionVars, dbVars, envVars, promptVars, summarizerVars,
                 mmSession, sessionsCreated, initialized, received>>

\* One caller of the analyzer's initialize and of analyzeMessage for
\* messages with images.
NextAnalyzerImages ==
  \/ CallAnalyzerInitialize(Caller)
  \/ CallAnalyzeMessageImages(Caller)
  \/ AnalyzeImagesDone(Caller)
  \/ Respond(Caller)
  \/ ImageBegin(Caller)
  \/ ImageCapabilities(Caller)
  \/ ImageCreateSession(Caller)
  \/ ImageCreateError(Caller)
  \/ ImageLoaded(Caller)
  \/ ImageResponse(Caller)
  \/ ImagePromptError(Caller)

SpecAnalyzerImages == Init /\ [][NextAnalyzerImages]_vars

\* One caller of the analyzer.
NextAnalyzer ==
  \/ CallAnalyzeMessage(Caller)
  \/ Respond(Caller)

SpecAnalyzer == Init /\ [][NextAnalyzer]_vars

\* One caller of the workflow's initialize, getAvailability and cleanup and
\* of classifyMessage, in a browser whose capabilities change.
NextWorkflow ==
  \/ CallInitialize(Caller)
  \/ CallGetAvailability(Caller)
  \/ CallCleanup(Caller)
  \/ Cleanup(Caller)
  \/ CapabilitiesChange
  \/ CallClassifyMessage(Caller)
  \/ Respond(Caller)
  \/ WorkflowInitialize(Caller)
  \/ PromptCheckAvailability(Caller)
  \/ PromptCreateSession(Caller)
  \/ PromptResponse(Caller)
  \/ PromptError(Caller)
  \/ StoreClassification(Caller)

SpecWorkflow == Init /\ [][NextWorkflow]_vars

\* ------------------------------------------------------------ draft title

\* Characters of the longest first sentence tried.
MaxSentenceLen == 82

\* Summary texts as sequences of characters: a run of n letters, then the
\* end of the sentence (or none, or a full stop without a blank after it),
\* then the rest.
Letters(n) == [i \in 1..n |-> "a"]

SentenceEnds == {<<>>, <<".", " ">>, <<"!", " ">>, <<".">>}

Rests == {<<>>, <<"S", "e", "e", "n", ".">>}

\* summary.split(/[.!?]\s/)[0]
FirstSentence(summary) ==
  LET ends == {i \in 1..(Len(summary) - 1) :
                 /\ summary[i] \in {".", "!", "?"}
                 /\ summary[i + 1] = " "}
  IN IF ends = {} THEN summary ELSE SubSeq(summary, 1, Min(ends) - 1)

\* The emoji of the type, as one character.
TitlePrefix(type) ==
  IF type = "bug" THEN <<"emoji-bug">>
  ELSE IF type = "feature" THEN <<"emoji-sparkles">>
  ELSE <<"emoji-shuffle">>

\* A title that takes the first sentence whole.
TitleUntruncated(type, summary) ==
  TitlePrefix(type) \o <<" ">> \o FirstSentence(summary)

_generateIssueTitle(type, summary) ==
  LET firstSentence == FirstSentence(summary)
      truncated == IF Len(firstSentence) > 80
                   THEN SubSeq(firstSentence, 1, 77) \o <<".", ".", ".">>
                   ELSE firstSentence
  IN TitlePrefix(type) \o <<" ">> \o truncated

\* _generateIssueTitle(type, summary), as _createIssueDraft calls it
CallGenerateIssueTitle(h) ==
  /\ CanReceive(h)
  /\ received' = received + 1
  /\ \E n \in 0..MaxSentenceLen, end \in SentenceEnds, rest \in Rests,
        type \in {c \in Categories : IsActionable([classification |-> c])} :
       LET summary == Letters(n) \o end \o rest
           t == NewTask("generateIssueTitle",
                        [type |-> type, n |-> n, end |-> end, rest |-> rest])
       IN task' = [task EXCEPT ![h] =
            Completed([t EXCEPT !.sent = summary],
                      [NoResult EXCEPT
                         !.outcome = "resolved",
                         !.value = _generateIssueTitle(type, summary)])]
  /\ UNCHANGED <<extensionVars, dbVars, envVars, promptVars, summarizerVars, mmSession,
                 sessionsCreated, initialized>>

\* One caller of the title generator.
NextTitle ==
  \/ CallGenerateIssueTitle(Caller)
  \/ Respond(Caller)

SpecTitle == Init /\ [][NextTitle]_vars

\* ------------------------------------------------------------ GitHub sink

\* issueData of a createIssue request ("" and <<>>: the field is left out).
IssueDatas ==
  [owner : {"", "octo"}, repo : {"", "hub"}, title : {"", "Crash on save"},
   labels : {<<>>, <<"bug">>}]

\* Storage.getRepository(): null (set: FALSE) or the selected repository.
Repositories ==
  { [set |-> FALSE, owner |-> "", name |-> ""],
    [set |-> TRUE, owner |-> "octo", name |-> "hub"],
    [set |-> TRUE, owner |-> "octo", name |-> ""] }

\* githubAPI.token ("": null) and Storage.getDefaultLabels().
Tokens == {"", "ghp_token"}
DefaultLabels == {<<>>, <<"ghosthub">>}

\* How the POST ends: the created issue, an HTTP error with a message in
\* its body, or a rejected fetch.
FetchOutcomes ==
  { [ok |-> TRUE, message |-> ""],
    [ok |-> FALSE, message |-> "Validation Failed"],
    [ok |-> FALSE, message |-> "Failed to fetch"] }

NoGitHubIssue == [number |-> 0, title |-> "", labels |-> <<>>]

\* new Error(`Failed to create GitHub issue: ${error.message}`)
FailedToCreate(message) == <<"Failed to create GitHub issue: ", message>>

\* An error thrown in the sink: githubAPI.createIssue rejects with it, the
\* worker's createIssue catches it and returns {success: false, error}.
SinkFailed(t, error) ==
  IF t.op = "createIssue"
  THEN Completed(t, [NoResult EXCEPT
         !.outcome = "resolved",
         !.value = [success |-> FALSE, error |-> error, issue |-> NoGitHubIssue]])
  ELSE Thrown(t, error)

\* Headers handed out whether or not there is a token.
getAuthHeadersAnonymous(token) ==
  [throws |-> FALSE, Authorization |-> <<"Bearer ", token>>]

\* getAuthHeaders(): throws 'GitHub token not set...' when this.token is
\* falsy, else the headers with `Bearer ${this.token}`.
getAuthHeaders(token) ==
  IF token = ""
  THEN [throws |-> TRUE, Authorization |-> <<>>]
  ELSE [throws |-> FALSE, Authorization |-> <<"Bearer ", token>>]

\* A sink that posts whatever it is given.
GitHubCreateIssueUnchecked(t, owner, repo, issueData, token) ==
  IF token = ""
  THEN SinkFailed(t, FailedToCreate(
         "GitHub token not set. Please configure authentication."))
  ELSE Did([t EXCEPT !.pc = "gh_fetch",
                     !.sent = <<[owner |-> owner, repo |-> repo,
                                 title |-> issueData.title,
                                 labels |-> issueData.labels]>>],
           "POST")

\* githubAPI.createIssue(owner, repo, issueData) up to its await: the two
\* validations, then the payload and, inside the try, the headers (which
\* throw without a token) and the fetch.
GitHubCreateIssue(t, owner, repo, issueData, token) ==
  IF owner = "" \/ repo = ""
  THEN SinkFailed(t, <<"Repository owner and name are required">>)
  ELSE IF issueData.title = ""
  THEN SinkFailed(t, <<"Issue title is required">>)
  ELSE IF getAuthHeaders(token).throws
  THEN SinkFailed(t, FailedToCreate(
         "GitHub token not set. Please configure authentication."))
  ELSE Did([t EXCEPT !.pc = "gh_fetch",
                     !.sent = <<[owner |-> owner, repo |-> repo,
                                 title |-> issueData.title,
                                 labels |-> issueData.labels]>>],
           "POST")

\* githubAPI.createIssue called on its own.
CallGitHubCreateIssue(h) ==
  /\ CanReceive(h)
  /\ received' = received + 1
  /\ \E issueData \in IssueDatas, token \in Tokens :
       task' = [task EXCEPT ![h] =
         GitHubCreateIssue(
           NewTask("githubAPI.createIssue", [issueData |-> issueData, token |-> token]),
           issueData.owner, issueData.repo, issueData, token)]
  /\ UNCHANGED <<extensionVars, dbVars, envVars, promptVars, summarizerVars, mmSession,
                 sessionsCreated, initialized>>

\* 'createIssue' -> createIssue(issueData) of the worker: the repository
\* from the settings when the request names none, the default labels when
\* it has none, then githubAPI.createIssue.
CallCreateIssue(h) ==
  /\ CanReceive(h)
  /\ received' = received + 1
  /\ \E issueData \in IssueDatas, token \in Tokens,
        repository \in Repositories, defaultLabels \in DefaultLabels :
       LET fromSettings == issueData.owner = "" \/ issueData.repo = ""
           owner == IF fromSettings THEN repository.owner ELSE issueData.owner
           repo == IF fromSettings THEN repository.name ELSE issueData.repo
           labelled == IF issueData.labels = <<>>
                       THEN [issueData EXCEPT !.labels = defaultLabels]
                       ELSE issueData
           t == NewTask("createIssue",
                        [issueData |-> issueData, token |-> token,
                         repository |-> repository])
       IN task' = [task EXCEPT ![h] =
            IF fromSettings /\ ~repository.set
            THEN SinkFailed(t, <<"No repository selected. Please configure a repository first.">>)
            ELSE GitHubCreateIssue(t, owner, repo, labelled, token)]
  /\ UNCHANGED <<extensionVars, dbVars, envVars, promptVars, summarizerVars, mmSession,
                 sessionsCreated, initialized>>

\* A sink that posts once more when the POST has failed.
FetchDoneRetries(h) ==
  LET t == task[h] IN
  /\ t.pc = "gh_fetch"
  /\ \E outcome \in FetchOutcomes :
       task' = [task EXCEPT ![h] =
         IF outcome.ok \/ Len(t.trace) > 1
         THEN Completed(t, [NoResult EXCEPT
                !.outcome = "resolved",
                !.value = [success |-> outcome.ok,
                           error |-> FailedToCreate(outcome.message),
                           issue |-> NoGitHubIssue]])
         ELSE Did(t, "POST")]
  /\ UNCHANGED <<extensionVars, dbVars, envVars, promptVars, summarizerVars, mmSession,
                 sessionsCreated, initialized, received>>

\* The fetch is over: the created issue is returned (by the worker as
\* {success: true, issue}), or the error is thrown on, wrapped.
FetchDone(h) ==
  LET t == task[h]
      issue == [number |-> 1, title |-> t.sent[1].title,
                labels |-> t.sent[1].labels]
  IN
  /\ t.pc = "gh_fetch"
  /\ \E outcome \in FetchOutcomes :
       task' = [task EXCEPT ![h] =
         IF outcome.ok
         THEN Completed(t, [NoResult EXCEPT
                !.outcome = "resolved",
                !.value = [success |-> TRUE, error |-> <<>>, issue |-> issue]])
         ELSE SinkFailed(t, FailedToCreate(outcome.message))]
  /\ UNCHANGED <<extensionVars, dbVars, envVars, promptVars, summarizerVars, mmSession,
                 sessionsCreated, initialized, received>>

\* One caller of the worker's createIssue and of the sink itself.
NextGitHub ==
  \/ CallCreateIssue(Caller)
  \/ CallGitHubCreateIssue(Caller)
  \/ FetchDone(Caller)
  \/ Respond(Caller)

SpecGitHub == Init /\ [][NextGitHub]_vars

\* ------------------------------------------------- multimodal responses

\* The sections of a response and what the model may write in each.
SectionTags == {"ERROR:", "TEXT:", "CONTEXT:"}

SectionContents(tag) ==
  CASE tag = "ERROR:" -> {<<"TypeError x">>, <<"none">>, <<"[]">>}
    [] tag = "TEXT:" -> {<<"Save">>}
    [] tag = "CONTEXT:" -> {<<"a dialog">>}

Sections ==
  UNION {[tag : {tag}, content : SectionContents(tag)] : tag \in SectionTags}

\* Any of the sections in any order, each at most once.
SectionLists ==
  {l \in SeqsUpTo(Sections, Cardinality(SectionTags)) :
     \A i, j \in 1..Len(l) : i # j => l[i].tag # l[j].tag}

\* The response text with these sections: each tag and its content.
RECURSIVE ResponseOf(_)
ResponseOf(sections) ==
  IF sections = <<>> THEN <<>>
  ELSE <<Head(sections).tag>> \o Head(sections).content
         \o ResponseOf(Tail(sections))

\* multimodalAI.parseMultimodalResponse(response)
CallParseMultimodalResponse(h) ==
  /\ CanReceive(h)
  /\ received' = received + 1
  /\ \E sections \in SectionLists :
       task' = [task EXCEPT ![h] =
         [NewTask("parseMultimodalResponse", [sections |-> sections])
            EXCEPT !.pc = "done",
                   !.sent = ResponseOf(sections),
                   !.result = [NoResult EXCEPT
                     !.outcome = "resolved",
                     !.image = parseMultimodalResponse(ResponseOf(sections))]]]
  /\ UNCHANGED <<extensionVars, dbVars, envVars, promptVars, summarizerVars,
                 mmSession, sessionsCreated, initialized>>

\* One caller of the parser.
NextParse ==
  \/ CallParseMultimodalResponse(Caller)
  \/ Respond(Caller)

SpecParse == Init /\ [][NextParse]_vars

\* ------------------------------------------------------------ Slack monitor

\* Messages the Slack page shows in one run.
MaxSlackMessages == 2

Authors == {"ann", "bob"}

\* extractMessages(): the messages of the page that are newer than
\* lastProcessedTimestamp, in page order.
extractMessages ==
  SelectSeq(slackDom, LAMBDA m : m.timestamp > lastProcessedTimestamp)

\* groupMessagesIntoThreads(messages): consecutive messages of one author.
RECURSIVE groupMessagesIntoThreads(_)
groupMessagesIntoThreads(messages) ==
  IF messages = <<>> THEN <<>>
  ELSE LET rest == groupMessagesIntoThreads(Tail(messages))
           m == Head(messages)
       IN IF rest # <<>> /\ rest[1].author = m.author
          THEN <<[rest[1] EXCEPT !.threadId = m.timestamp,
                                 !.messages = <<m>> \o @]>> \o Tail(rest)
          ELSE <<[threadId |-> m.timestamp, author |-> m.author,
                  messages |-> <<m>>]>> \o rest

Timestamps(messages) == [i \in 1..Len(messages) |-> messages[i].timestamp]

Max(S) == CHOOSE x \in S : \A y \in S : y <= x

\* lastProcessedTimestamp = Math.max(...messages.map(m => m.timestamp))
MonitorUpdated(t) ==
  /\ lastProcessedTimestamp' =
       Max({t.arg.messages[i].timestamp : i \in 1..Len(t.arg.messages)})
  /\ UNCHANGED slackDom

\* The for-loop over the threads: the next thread with two messages or
\* more is sent as PROCESS_THREAD and its response awaited; after the last
\* one the timestamp is updated and monitorMessages returns.
MonitorThreads(h, t, threads) ==
  LET long == {i \in 1..Len(threads) : Len(threads[i].messages) >= 2} IN
  IF long = {}
  THEN /\ MonitorUpdated(t)
       /\ UNCHANGED slackSent
       /\ task' = [task EXCEPT ![h] =
            [t EXCEPT !.pc = "done", !.items = <<>>,
                      !.result = [NoResult EXCEPT !.outcome = "resolved"]]]
  ELSE /\ slackSent' = Append(slackSent,
            [type |-> "PROCESS_THREAD",
             timestamps |-> Timestamps(threads[Min(long)].messages)])
       /\ UNCHANGED <<lastProcessedTimestamp, slackDom>>
       /\ task' = [task EXCEPT ![h] =
            [t EXCEPT !.pc = "mm_response",
                      !.items = SubSeq(threads, Min(long) + 1, Len(threads))]]

\* A message appears in the Slack page.
SlackMessageArrives ==
  /\ Len(slackDom) < MaxSlackMessages
  /\ \E author \in Authors :
       slackDom' = Append(slackDom,
         [author |-> author, timestamp |-> Len(slackDom) + 1])
  /\ UNCHANGED <<tokenVars, analyzerMultimodalAI, lastProcessedTimestamp,
                 slackSent, drafts, contentVars, dbVars, envVars, promptVars, summarizerVars,
                 mmSession, sessionsCreated, initialized, received, task>>

\* A tick of setInterval(monitorMessages, CHECK_INTERVAL): monitorMessages
\* up to await chrome.storage.local.get('settings'); it returns at once
\* when extractMessages() finds nothing new. (task[h] is an invocation of
\* monitorMessages here.)
MonitorTick(h) ==
  /\ CanReceive(h)
  /\ received' = received + 1
  /\ extractMessages # <<>>
  /\ task' = [task EXCEPT ![h] =
       [NewTask("monitorMessages", [messages |-> extractMessages])
          EXCEPT !.pc = "mm_settings"]]
  /\ UNCHANGED <<extensionVars, dbVars, envVars, promptVars, summarizerVars,
                 mmSession, sessionsCreated, initialized>>

\* The settings are there: nothing without autoClassify; one message is
\* sent as CLASSIFY_MESSAGE; several are grouped into threads when
\* autoSummarize is set, and else only the timestamp is updated.
MonitorSettings(h) ==
  LET t == task[h]
      messages == t.arg.messages
  IN
  /\ t.pc = "mm_settings"
  /\ \E autoClassify, autoSummarize \in BOOLEAN :
       IF ~autoClassify
       THEN /\ UNCHANGED slackVars
            /\ task' = [task EXCEPT ![h] =
                 [t EXCEPT !.pc = "done",
                           !.result = [NoResult EXCEPT !.outcome = "resolved"]]]
       ELSE IF Len(messages) = 1
       THEN /\ slackSent' = Append(slackSent,
                 [type |-> "CLASSIFY_MESSAGE",
                  timestamps |-> Timestamps(messages)])
            /\ UNCHANGED <<lastProcessedTimestamp, slackDom>>
            /\ task' = [task EXCEPT ![h] = [t EXCEPT !.pc = "mm_response"]]
       ELSE IF autoSummarize
       THEN MonitorThreads(h, t, groupMessagesIntoThreads(messages))
       ELSE /\ MonitorUpdated(t)
            /\ UNCHANGED slackSent
            /\ task' = [task EXCEPT ![h] =
                 [t EXCEPT !.pc = "done",
                           !.result = [NoResult EXCEPT !.outcome = "resolved"]]]
  /\ UNCHANGED <<contentVars, tokenVars, analyzerMultimodalAI, drafts, dbVars, envVars, promptVars,
                 summarizerVars, mmSession, sessionsCreated, initialized,
                 received>>

\* The worker has answered: {success: true} resolves and the loop goes on
\* (or the timestamp is updated); anything else rejects, and the catch of
\* monitorMessages logs the error and leaves the timestamp as it is.
MonitorResponse(h) ==
  LET t == task[h] IN
  /\ t.pc = "mm_response"
  /\ \E success \in BOOLEAN :
       IF success
       THEN MonitorThreads(h, t, t.items)
       ELSE /\ UNCHANGED slackVars
            /\ task' = [task EXCEPT ![h] =
                 [t EXCEPT !.pc = "done",
                           !.result = [NoResult EXCEPT
                                         !.outcome = "rejected",
                                         !.error = "Classification failed"]]]
  /\ UNCHANGED <<contentVars, tokenVars, analyzerMultimodalAI, drafts, dbVars, envVars, promptVars,
                 summarizerVars, mmSession, sessionsCreated, initialized,
                 received>>

\* The page and the monitor's ticks; a tick may fire while an earlier one
\* is still waiting.
NextSlack ==
  \/ SlackMessageArrives
  \/ \E h \in Handlers :
       \/ MonitorTick(h)
       \/ MonitorSettings(h)
       \/ MonitorResponse(h)
       \/ Respond(h)

SpecSlack == Init /\ [][NextSlack]_vars

\* ------------------------------------------------------------ local drafts

\* chrome.storage calls: done, or chrome.runtime.lastError is set.
StorageOutcomes == {"done", "lastError"}

\* Types of the analysis a content script sends with CREATE_ISSUE.
AnalysisTypes == {"bug", "feature"}

\* handleCreateIssue(data, sender) up to storeDraft's chrome.storage.local
\* .get: without a configuration it throws; else the draft is built from
\* the analysis (the request's timestamp tells the drafts apart).
HandleCreateIssue(h) ==
  /\ CanReceive(h)
  /\ received' = received + 1
  /\ \E configured \in BOOLEAN, type \in AnalysisTypes :
       LET draft == [labels |-> IF type = "bug" THEN <<"bug">>
                                ELSE <<"enhancement">>,
                     timestamp |-> received + 1, status |-> "draft"]
           t == NewTask("handleCreateIssue", [draft |-> draft])
       IN task' = [task EXCEPT ![h] =
            IF configured THEN [t EXCEPT !.pc = "sd_get"]
            ELSE Thrown(t, "GitHub configuration not set. Please configure in extension popup.")]
  /\ UNCHANGED <<extensionVars, dbVars, envVars, promptVars, summarizerVars,
                 mmSession, sessionsCreated, initialized>>

\* storeDraft: the get's callback has result.drafts || [], pushes the draft
\* and calls chrome.storage.local.set({drafts}).
StoreDraftGet(h) ==
  LET t == task[h] IN
  /\ t.pc = "sd_get"
  /\ task' = [task EXCEPT ![h] =
       [t EXCEPT !.pc = "sd_set", !.items = Append(drafts, t.arg.draft)]]
  /\ UNCHANGED <<extensionVars, dbVars, envVars, promptVars, summarizerVars,
                 mmSession, sessionsCreated, initialized, received>>

\* storeDraft: the set's callback: the list is written and the draft
\* returned, or chrome.runtime.lastError rejects the call.
StoreDraftSet(h) ==
  LET t == task[h] IN
  /\ t.pc = "sd_set"
  /\ \E outcome \in StorageOutcomes :
       IF outcome = "done"
       THEN /\ drafts' = t.items
            /\ task' = [task EXCEPT ![h] =
                 Completed(t, [NoResult EXCEPT !.outcome = "resolved",
                                               !.value = t.arg.draft])]
       ELSE /\ UNCHANGED drafts
            /\ task' = [task EXCEPT ![h] = Thrown(t, "lastError")]
  /\ UNCHANGED <<contentVars, tokenVars, analyzerMultimodalAI, slackVars, dbVars, envVars,
                 promptVars, summarizerVars, mmSession, sessionsCreated,
                 initialized, received>>

\* CREATE_ISSUE requests, each in a handler of its own.
NextDrafts ==
  \E h \in Handlers :
    \/ HandleCreateIssue(h)
    \/ StoreDraftGet(h)
    \/ StoreDraftSet(h)
    \/ Respond(h)

SpecDrafts == Init /\ [][NextDrafts]_vars

\* ---------------------------------------------------------- content script

\* Calls of the content script in one run.
MaxContentCalls == 4

\* What extractMessageData hands to processMessage: null, data without an
\* id, or data with an id (the same message may be reported again, also
\* with another text).
MessageDatas ==
  {[null |-> TRUE, id |-> "", text |-> ""]}
    \cup [null : {FALSE}, id : {"", "m1", "m2"}, text : {"crash", "crash (edited)"}]

CanCallContent == received < MaxContentCalls

\* What is left untouched by the content script.
WorkerUnchanged ==
  UNCHANGED <<tokenVars, analyzerMultimodalAI, slackVars, drafts, dbVars,
              envVars, promptVars, summarizerVars, mmSession, sessionsCreated,
              initialized, task>>

\* A processMessage that forwards whatever has an id.
ProcessMessageAgain ==
  /\ CanCallContent
  /\ received' = received + 1
  /\ \E messageData \in MessageDatas :
       IF messageData.null \/ messageData.id = ""
       THEN UNCHANGED contentVars
       ELSE /\ contentMessages' =
                 (messageData.id :> messageData.text) @@ contentMessages
            /\ contentLog' = Append(contentLog,
                 [action |-> "messageDetected", id |-> messageData.id])
  /\ WorkerUnchanged

\* processMessage(messageData): nothing without data or id, nothing for an
\* id that is in this.messages; else the data is put into the map and sent
\* to the background worker.
ProcessMessage ==
  /\ CanCallContent
  /\ received' = received + 1
  /\ \E messageData \in MessageDatas :
       IF messageData.null \/ messageData.id = ""
       THEN UNCHANGED contentVars
       ELSE IF messageData.id \in DOMAIN contentMessages
       THEN UNCHANGED contentVars
       ELSE /\ contentMessages' =
                 (messageData.id :> messageData.text) @@ contentMessages
            /\ contentLog' = Append(contentLog,
                 [action |-> "messageDetected", id |-> messageData.id])
  /\ WorkerUnchanged

\* handleBackgroundMessage({action: 'clearMessages'}): this.messages.clear();
\* destroy() clears the map too.
ClearMessages ==
  /\ CanCallContent
  /\ received' = received + 1
  /\ contentMessages' = <<>>
  /\ contentLog' = Append(contentLog, [action |-> "clear", id |-> ""])
  /\ WorkerUnchanged

\* handleBackgroundMessage for 'getMessages', 'ping' and unknown actions:
\* an answer, and no change.
ReadMessages ==
  /\ CanCallContent
  /\ received' = received + 1
  /\ UNCHANGED contentVars
  /\ WorkerUnchanged

\* The content script: the observer's reports and the worker's requests.
NextContent ==
  \/ ProcessMessage
  \/ ClearMessages
  \/ ReadMessages

SpecContent == Init /\ [][NextContent]_vars

\* ------------------------------------------------------------ GitHub token

\* Tokens a request may carry ("": none).
RequestTokens == {"", "ghp_token", "ghp_other"}

\* What the worker answers to a token request.
TokenReply(success, error) == [success |-> success, error |-> error]

\* new Error(`Authentication verification failed: ${error.message}`)
VerificationFailed(message) ==
  <<"Authentication verification failed: ", message>>

\* 'verifyAuth' -> verifyAuth(token): githubAPI.setToken(token), then
\* githubAPI.verifyAuth(), whose getAuthHeaders() throws into its catch
\* when there is no token and which else awaits the GET /user.
ReceiveVerifyAuth(h) ==
  /\ CanReceive(h)
  /\ received' = received + 1
  /\ \E token \in RequestTokens :
       LET t == NewTask("verifyAuth", [token |-> token, held |-> githubToken])
       IN /\ githubToken' = token
          /\ task' = [task EXCEPT ![h] =
               IF getAuthHeaders(token).throws
               THEN Completed(t, [NoResult EXCEPT
                      !.outcome = "resolved",
                      !.value = TokenReply(FALSE, VerificationFailed(
                        "GitHub token not set. Please configure authentication."))])
               ELSE Did([t EXCEPT !.pc = "va_fetch",
                                  !.sent = getAuthHeaders(token).Authorization],
                        "GET")]
  /\ UNCHANGED <<contentVars, analyzerMultimodalAI, slackVars, drafts, dbVars, envVars, promptVars, summarizerVars, mmSession,
                 sessionsCreated, initialized, savedToken>>

\* The GET /user is over: the user, or the error (response not ok, or the
\* fetch rejected) wrapped and returned as {success: false, error}.
VerifyAuthDone(h) ==
  LET t == task[h] IN
  /\ t.pc = "va_fetch"
  /\ \E outcome \in FetchOutcomes :
       task' = [task EXCEPT ![h] =
         Completed(t, [NoResult EXCEPT
           !.outcome = "resolved",
           !.value = IF outcome.ok THEN TokenReply(TRUE, <<>>)
                     ELSE TokenReply(FALSE, VerificationFailed(outcome.message))])]
  /\ UNCHANGED <<contentVars, analyzerMultimodalAI, slackVars, drafts, dbVars, envVars, promptVars, summarizerVars, mmSession,
                 sessionsCreated, initialized, tokenVars, received>>

\* 'saveToken' -> saveToken(token), up to await Storage.saveToken(token)
ReceiveSaveToken(h) ==
  /\ CanReceive(h)
  /\ received' = received + 1
  /\ \E token \in RequestTokens :
       task' = [task EXCEPT ![h] =
         [NewTask("saveToken", [token |-> token, held |-> githubToken])
            EXCEPT !.pc = "st_storage"]]
  /\ UNCHANGED <<contentVars, analyzerMultimodalAI, slackVars, drafts, dbVars, envVars, promptVars, summarizerVars, mmSession,
                 sessionsCreated, initialized, tokenVars>>

\* chrome.storage.sync.set is over: githubAPI.setToken(token), or the
\* storage error returned.
SaveTokenDone(h) ==
  LET t == task[h] IN
  /\ t.pc = "st_storage"
  /\ \E outcome \in StorageOutcomes :
       IF outcome = "done"
       THEN /\ savedToken' = t.arg.token
            /\ githubToken' = t.arg.token
            /\ task' = [task EXCEPT ![h] =
                 Completed(t, [NoResult EXCEPT !.outcome = "resolved",
                                               !.value = TokenReply(TRUE, <<>>)])]
       ELSE /\ UNCHANGED tokenVars
            /\ task' = [task EXCEPT ![h] =
                 Completed(t, [NoResult EXCEPT
                   !.outcome = "resolved",
                   !.value = TokenReply(FALSE, <<"lastError">>)])]
  /\ UNCHANGED <<contentVars, analyzerMultimodalAI, slackVars, drafts, dbVars, envVars, promptVars, summarizerVars, mmSession,
                 sessionsCreated, initialized, received>>

\* 'removeToken' -> removeToken(), up to await Storage.removeToken()
ReceiveRemoveToken(h) ==
  /\ CanReceive(h)
  /\ received' = received + 1
  /\ task' = [task EXCEPT ![h] =
       [NewTask("removeToken", [token |-> "", held |-> githubToken])
          EXCEPT !.pc = "rt_storage"]]
  /\ UNCHANGED <<contentVars, analyzerMultimodalAI, slackVars, drafts, dbVars, envVars, promptVars, summarizerVars, mmSession,
                 sessionsCreated, initialized, tokenVars>>

\* chrome.storage.sync.remove is over: githubAPI.setToken(null), or the
\* storage error returned.
RemoveTokenDone(h) ==
  LET t == task[h] IN
  /\ t.pc = "rt_storage"
  /\ \E outcome \in StorageOutcomes :
       IF outcome = "done"
       THEN /\ savedToken' = ""
            /\ githubToken' = ""
            /\ task' = [task EXCEPT ![h] =
                 Completed(t, [NoResult EXCEPT !.outcome = "resolved",
                                               !.value = TokenReply(TRUE, <<>>)])]
       ELSE /\ UNCHANGED tokenVars
            /\ task' = [task EXCEPT ![h] =
                 Completed(t, [NoResult EXCEPT
                   !.outcome = "resolved",
                   !.value = TokenReply(FALSE, <<"lastError">>)])]
  /\ UNCHANGED <<contentVars, analyzerMultimodalAI, slackVars, drafts, dbVars, envVars, promptVars, summarizerVars, mmSession,
                 sessionsCreated, initialized, received>>

\* githubAPI.getAuthHeaders() on the worker's client.
CallGetAuthHeaders(h) ==
  /\ CanReceive(h)
  /\ received' = received + 1
  /\ task' = [task EXCEPT ![h] =
       Completed(NewTask("getAuthHeaders", [token |-> "", held |-> githubToken]),
                 [NoResult EXCEPT !.outcome = "resolved",
                                  !.value = getAuthHeaders(githubToken)])]
  /\ UNCHANGED <<contentVars, analyzerMultimodalAI, slackVars, drafts, dbVars, envVars, promptVars, summarizerVars, mmSession,
                 sessionsCreated, initialized, tokenVars>>

\* 'createIssue' -> createIssue(issueData) of the worker for a request that
\* names its repository and labels: githubAPI.createIssue with the token
\* the client holds.
ReceiveCreateIssue(h) ==
  /\ CanReceive(h)
  /\ received' = received + 1
  /\ \E issueData \in {d \in IssueDatas : d.owner # "" /\ d.repo # ""
                                           /\ d.title # "" /\ d.labels # <<>>} :
       task' = [task EXCEPT ![h] =
         GitHubCreateIssue(
           NewTask("createIssue",
                   [issueData |-> issueData, token |-> githubToken,
                    held |-> githubToken, saved |-> savedToken]),
           issueData.owner, issueData.repo, issueData, githubToken)]
  /\ UNCHANGED <<contentVars, analyzerMultimodalAI, slackVars, drafts, dbVars, envVars, promptVars, summarizerVars, mmSession,
                 sessionsCreated, initialized, tokenVars>>

\* The worker's token requests and createIssue, interleaved at the awaits.
NextToken ==
  \E h \in Handlers :
    \/ ReceiveVerifyAuth(h)
    \/ VerifyAuthDone(h)
    \/ ReceiveSaveToken(h)
    \/ SaveTokenDone(h)
    \/ ReceiveRemoveToken(h)
    \/ RemoveTokenDone(h)
    \/ CallGetAuthHeaders(h)
    \/ ReceiveCreateIssue(h)
    \/ FetchDone(h)
    \/ Respond(h)

SpecToken == Init /\ [][NextToken]_vars

\* The same requests from one caller, each answered before the next.
NextTokenCalls ==
  \/ ReceiveVerifyAuth(Caller)
  \/ VerifyAuthDone(Caller)
  \/ ReceiveSaveToken(Caller)
  \/ SaveTokenDone(Caller)
  \/ ReceiveRemoveToken(Caller)
  \/ RemoveTokenDone(Caller)
  \/ ReceiveCreateIssue(Caller)
  \/ FetchDone(Caller)
  \/ Respond(Caller)

SpecTokenCalls == Init /\ [][NextTokenCalls]_vars

\* One caller of summarizeStreaming.
NextStream ==
  \/ CallSummarizeStreaming(Caller)
  \/ Respond(Caller)
  \/ SummarizerCheckAvailability(Caller)
  \/ SummarizerCreate(Caller)
  \/ SummarizeFallback(Caller)
  \/ StreamOpened(Caller)
  \/ StreamRead(Caller)
  \/ StreamError(Caller)

SpecStream == Init /\ [][NextStream]_vars

\* Messages in a thread handed to processThread on its own.
MaxThreadLen == 2

\* Threads of up to MaxThreadLen messages, in every order.
ThreadsOfAnyLength ==
  {[threadId |-> "T-any", messages |-> ms] :
     ms \in SeqsUpTo(Messages, MaxThreadLen) \ {<<>>}}

\* aiWorkflow.processThread(thread) for any such thread
CallProcessAnyThread(h) ==
  /\ CanReceive(h)
  /\ received' = received + 1
  /\ \E th \in ThreadsOfAnyLength, p \in Platforms :
       task' = [task EXCEPT ![h] =
         [NewTask("processThread", ThreadArg(th, p)) EXCEPT !.pc = "wf_init"]]
  /\ UNCHANGED <<extensionVars, dbVars, envVars, promptVars, summarizerVars, mmSession,
                 sessionsCreated, initialized>>

\* One caller of processThread.
NextThread ==
  \/ CallProcessAnyThread(Caller)
  \/ Respond(Caller)
  \/ WorkflowInitialize(Caller)
  \/ PromptCheckAvailability(Caller)
  \/ PromptCreateSession(Caller)
  \/ PromptResponse(Caller)
  \/ PromptError(Caller)
  \/ StoreClassification(Caller)
  \/ SummarizerCheckAvailability(Caller)
  \/ SummarizerCreate(Caller)
  \/ SummarizeResponse(Caller)
  \/ SummarizeError(Caller)
  \/ StoreSummary(Caller)
  \/ StoreIssue(Caller)

SpecThread == Init /\ [][NextThread]_vars

\* Platform names as content scripts and callers write them ("": left out).
PlatformNames == {"slack", "Discord", ""}

\* _createIssueDraft(classification, summary) as processThread calls it: for
\* an actionable classification and the summary of the same thread.
CallCreateIssueDraft(h) ==
  /\ CanReceive(h)
  /\ received' = received + 1
  /\ \E th \in ThreadsOfAnyLength, p \in PlatformNames, text \in SummaryTexts,
        c \in {x \in Categories : IsActionable([classification |-> x])} :
       LET arg == ThreadArg(th, p)
           classification ==
             [ClassificationResult(th.messages[1], p, <<"category:", c>>)
                EXCEPT !.id = 1]
           summary == [SummaryResult(arg, text) EXCEPT !.id = 1]
           issueDraft == _createIssueDraft(classification, summary)
       IN task' = [task EXCEPT ![h] =
            [NewTask("createIssueDraft", arg) EXCEPT
               !.pc = "done", !.cls = classification, !.sum = summary,
               !.issue = issueDraft,
               !.result = [NoResult EXCEPT !.outcome = "resolved",
                                           !.issueDraft = issueDraft]]]
  /\ UNCHANGED <<extensionVars, dbVars, envVars, promptVars, summarizerVars, mmSession,
                 sessionsCreated, initialized>>

\* The orchestrator's draft builder on its own.
NextDraft ==
  \/ CallCreateIssueDraft(Caller)
  \/ Respond(Caller)

SpecDraft == Init /\ [][NextDraft]_vars

\* ------------------------------------------------ the stores' functions

NoStoreResult == [outcome |-> "", error |-> "", id |-> 0, records |-> {}]

\* storeClassification / storeSummary: {...data, timestamp: Date.now()};
\* storeIssue: also status: issue.status || 'draft'.
Stamped(storeName, data, now) ==
  LET stamped == [data EXCEPT !.timestamp = now]
  IN IF storeName = "issues" THEN IssueToStore(stamped) ELSE stamped

\* utils store(): the required fields.
ValidItem(data) == data.platform # "" /\ data.type # "" /\ data.content # ""

\* A store() that stamps every record with the time of the insert.
ItemAlwaysStamped(data, now) ==
  [data EXCEPT !.timestamp = now,
               !.status = IF data.status # "" THEN data.status ELSE "pending"]

\* utils store(): timestamp: data.timestamp || Date.now(),
\* status: data.status || 'pending'.
ItemToStore(data, now) ==
  [data EXCEPT !.timestamp = IF data.timestamp # 0 THEN data.timestamp ELSE now,
               !.status = IF data.status # "" THEN data.status ELSE "pending"]

CanCall(h) == received < MaxStoreCalls /\ ~Busy(h)

\* A call that is made by the one caller; its trace is the log of the inserts
\* made so far: what was handed in, when, and the id that was returned.
StoreTask(h, op, arg) ==
  [IdleTask EXCEPT !.op = op, !.arg = arg, !.before = db, !.trace = task[h].trace]

\* The call has settled with res.
Returned(h, op, arg, res, log) ==
  /\ received' = received + 1
  /\ task' = [task EXCEPT ![h] =
       [StoreTask(h, op, arg) EXCEPT !.pc = "done", !.result = res, !.trace = log]]

\* dbManager.storeClassification / storeSummary / storeIssue (data)
CallStoreRecord(h) ==
  /\ CanCall(h)
  /\ \E storeName \in STORES, data \in StoreInputs, now \in Clock :
       /\ _addRecord(storeName, Stamped(storeName, data, now))
       /\ Returned(h, "storeRecord",
                   [store |-> storeName, data |-> data, now |-> now],
                   [NoStoreResult EXCEPT !.outcome = "resolved",
                                         !.id = NewKey(storeName)],
                   Append(task[h].trace,
                          [store |-> storeName, id |-> NewKey(storeName),
                           data |-> data, now |-> now]))
  /\ UNCHANGED <<extensionVars, envVars, promptVars, summarizerVars, mmSession,
                 sessionsCreated, initialized>>

\* utils store(data)
CallStore(h) ==
  /\ CanCall(h)
  /\ \E data \in StoreInputs, now \in Clock :
       LET arg == [store |-> STORE_NAME, data |-> data, now |-> now] IN
       IF ValidItem(data)
       THEN /\ _addRecord(STORE_NAME, ItemToStore(data, now))
            /\ Returned(h, "store", arg,
                        [NoStoreResult EXCEPT !.outcome = "resolved",
                                              !.id = NewKey(STORE_NAME)],
                        Append(task[h].trace,
                               [store |-> STORE_NAME, id |-> NewKey(STORE_NAME),
                                data |-> data, now |-> now]))
       ELSE /\ UNCHANGED dbVars
            /\ Returned(h, "store", arg,
                        [NoStoreResult EXCEPT
                           !.outcome = "rejected",
                           !.error = "Missing required fields"],
                        task[h].trace)
  /\ UNCHANGED <<extensionVars, envVars, promptVars, summarizerVars, mmSession,
                 sessionsCreated, initialized>>

\* dbManager.deleteRecord(storeName, id) / utils deleteItem(id)
CallDeleteItem(h) ==
  /\ CanCall(h)
  /\ \E storeName \in AllStores : \E id \in 1..keyGen[storeName] :
       /\ _deleteRecord(storeName, id)
       /\ Returned(h, "deleteRecord", [store |-> storeName, id |-> id],
                   [NoStoreResult EXCEPT !.outcome = "resolved"], task[h].trace)
  /\ UNCHANGED <<extensionVars, envVars, promptVars, summarizerVars, mmSession,
                 sessionsCreated, initialized>>

\* dbManager.clearStore(storeName) / utils deleteAll(): store.clear()
CallClearStore(h) ==
  /\ CanCall(h)
  /\ \E storeName \in AllStores :
       /\ db' = [db EXCEPT ![storeName] = <<>>]
       /\ UNCHANGED keyGen
       /\ Returned(h, "clearStore", [store |-> storeName],
                   [NoStoreResult EXCEPT !.outcome = "resolved"], task[h].trace)
  /\ UNCHANGED <<extensionVars, envVars, promptVars, summarizerVars, mmSession,
                 sessionsCreated, initialized>>

\* dbManager._getRecord(storeName, id) / utils retrieve(id): the record, or
\* nothing (undefined / null).
CallRetrieve(h) ==
  /\ CanCall(h)
  /\ \E storeName \in AllStores : \E id \in 1..keyGen[storeName] :
       Returned(h, "retrieve", [store |-> storeName, id |-> id],
                [NoStoreResult EXCEPT
                   !.outcome = "resolved",
                   !.records = IF id \in DOMAIN db[storeName]
                               THEN {db[storeName][id]} ELSE {}],
                task[h].trace)
  /\ UNCHANGED <<extensionVars, dbVars, envVars, promptVars, summarizerVars, mmSession,
                 sessionsCreated, initialized>>

\* The caller has its answer and may call again.
StoreReturn(h) ==
  /\ task[h].pc = "done"
  /\ task' = [task EXCEPT ![h] = [IdleTask EXCEPT !.trace = task[h].trace]]
  /\ UNCHANGED <<extensionVars, dbVars, envVars, promptVars, summarizerVars, mmSession,
                 sessionsCreated, initialized, received>>

\* The records of a store (getAll).
_getAllRecords(storeName) == {db[storeName][id] : id \in DOMAIN db[storeName]}

\* A filter that lets a record through when any one field matches.
MatchesAny(record, filters) ==
  \E key \in DOMAIN filters : record[key] = filters[key]

\* Object.entries(filters).every(([key, value]) => record[key] === value)
Matches(record, filters) ==
  \A key \in DOMAIN filters : record[key] = filters[key]

\* getClassifications / getSummaries / getIssues (filters)
GetRecords(storeName, filters) ==
  IF DOMAIN filters = {}
  THEN _getAllRecords(storeName)
  ELSE {record \in _getAllRecords(storeName) : Matches(record, filters)}

\* retrieveAll(filter): one pass per known field, when the filter has a
\* truthy value for it.
FilterBy(results, filter, key) ==
  IF key \in DOMAIN filter /\ filter[key] # ""
  THEN {item \in results : item[key] = filter[key]}
  ELSE results

retrieveAll(filter) ==
  FilterBy(FilterBy(FilterBy(_getAllRecords(STORE_NAME), filter, "platform"),
                    filter, "type"),
           filter, "status")

CallGetRecords(h) ==
  /\ CanCall(h)
  /\ \E storeName \in STORES, filters \in Filters :
       Returned(h, "getRecords", [store |-> storeName, filters |-> filters],
                [NoStoreResult EXCEPT
                   !.outcome = "resolved",
                   !.records = GetRecords(storeName, filters)],
                task[h].trace)
  /\ UNCHANGED <<extensionVars, dbVars, envVars, promptVars, summarizerVars, mmSession,
                 sessionsCreated, initialized>>

CallRetrieveAll(h) ==
  /\ CanCall(h)
  /\ \E filter \in Filters :
       Returned(h, "retrieveAll", [store |-> STORE_NAME, filters |-> filter],
                [NoStoreResult EXCEPT !.outcome = "resolved",
                                      !.records = retrieveAll(filter)],
                task[h].trace)
  /\ UNCHANGED <<extensionVars, dbVars, envVars, promptVars, summarizerVars, mmSession,
                 sessionsCreated, initialized>>

\* A merge in which the updates may replace the id.
MergedIdFromUpdates(existingItem, updates, id) ==
  [key \in DOMAIN existingItem |->
     IF key \in DOMAIN updates THEN updates[key] ELSE existingItem[key]]

\* utils update(): {...existingItem, ...updates, id}
Merged(existingItem, updates, id) ==
  [key \in DOMAIN existingItem \cup DOMAIN updates \cup {"id"} |->
     IF key = "id" THEN id
     ELSE IF key \in DOMAIN updates THEN updates[key]
     ELSE existingItem[key]]

\* utils update(id, updates), up to the get of its first transaction
CallUpdate(h) ==
  /\ CanCall(h)
  /\ received' = received + 1
  /\ \E id \in 1..(keyGen[STORE_NAME] + 1), updates \in Updates :
       task' = [task EXCEPT ![h] =
         [StoreTask(h, "update",
                    [store |-> STORE_NAME, id |-> id, updates |-> updates])
            EXCEPT !.pc = "up_get"]]
  /\ UNCHANGED <<extensionVars, dbVars, envVars, promptVars, summarizerVars, mmSession,
                 sessionsCreated, initialized>>

\* update(): getRequest.onsuccess: not found, or merge and start the put.
UpdateGet(h) ==
  LET t == task[h] IN
  /\ t.pc = "up_get"
  /\ task' = [task EXCEPT ![h] =
       IF t.arg.id \in DOMAIN db[STORE_NAME]
       THEN [t EXCEPT !.pc = "up_put",
                      !.issue = Merged(db[STORE_NAME][t.arg.id],
                                       t.arg.updates, t.arg.id)]
       ELSE [t EXCEPT !.pc = "done",
                      !.result = [NoStoreResult EXCEPT
                                    !.outcome = "rejected",
                                    !.error = "Item with ID not found"]]]
  /\ UNCHANGED <<extensionVars, dbVars, envVars, promptVars, summarizerVars, mmSession,
                 sessionsCreated, initialized, received>>

\* update(): putRequest.onsuccess
UpdatePut(h) ==
  LET t == task[h] IN
  /\ t.pc = "up_put"
  /\ _updateRecord(STORE_NAME, t.issue)
  /\ task' = [task EXCEPT ![h] =
       [t EXCEPT !.pc = "done",
                 !.result = [NoStoreResult EXCEPT !.outcome = "resolved",
                                                  !.id = t.issue.id]]]
  /\ UNCHANGED <<extensionVars, envVars, promptVars, summarizerVars, mmSession,
                 sessionsCreated, initialized, received>>

\* dbManager.updateIssueStatus(id, status), called on its own
CallUpdateIssueStatus(h) ==
  /\ CanCall(h)
  /\ received' = received + 1
  /\ \E id \in 1..(keyGen["issues"] + 1), status \in {"approved", "rejected"} :
       task' = [task EXCEPT ![h] =
         [StoreTask(h, "updateIssueStatus",
                    [NoArg EXCEPT !.id = id, !.status = status, !.store = "issues"])
            EXCEPT !.pc = "us_get"]]
  /\ UNCHANGED <<extensionVars, dbVars, envVars, promptVars, summarizerVars, mmSession,
                 sessionsCreated, initialized>>

\* One caller of the stores' functions, one call at a time.
NextStore ==
  \/ CallStoreRecord(Caller)
  \/ CallStore(Caller)
  \/ CallDeleteItem(Caller)
  \/ CallClearStore(Caller)
  \/ CallRetrieve(Caller)
  \/ StoreReturn(Caller)

SpecStore == Init /\ [][NextStore]_vars

\* One caller of processThread who also deletes records and clears stores.
NextFrame ==
  \/ CallProcessThread(Caller)
  \/ CallDeleteItem(Caller)
  \/ CallClearStore(Caller)
  \/ Respond(Caller)
  \/ WorkflowInitialize(Caller)
  \/ PromptCheckAvailability(Caller)
  \/ PromptCreateSession(Caller)
  \/ PromptResponse(Caller)
  \/ PromptError(Caller)
  \/ StoreClassification(Caller)
  \/ SummarizerCheckAvailability(Caller)
  \/ SummarizerCreate(Caller)
  \/ SummarizeResponse(Caller)
  \/ SummarizeError(Caller)
  \/ StoreSummary(Caller)
  \/ StoreIssue(Caller)

SpecFrame == Init /\ [][NextFrame]_vars

\* One caller that inserts and queries.
NextQuery ==
  \/ CallStoreRecord(Caller)
  \/ CallStore(Caller)
  \/ CallGetRecords(Caller)
  \/ CallRetrieveAll(Caller)
  \/ StoreReturn(Caller)

SpecQuery == Init /\ [][NextQuery]_vars

\* One caller that inserts and updates.
NextUpdate ==
  \/ CallStoreRecord(Caller)
  \/ CallStore(Caller)
  \/ CallUpdate(Caller)
  \/ UpdateGet(Caller)
  \/ UpdatePut(Caller)
  \/ CallUpdateIssueStatus(Caller)
  \/ UpdateIssueStatusGet(Caller)
  \/ UpdateIssueStatusPut(Caller)
  \/ StoreReturn(Caller)

SpecUpdate == Init /\ [][NextUpdate]_vars

\* Messages a caller may hand to classifyMessage: also one without text.
MessagesOrEmpty == Messages \cup {Msg("", "ann")}

\* classifyMessage called on its own
CallClassifyAny(h) ==
  /\ CanStart(h, MaxClassifyCalls)
  /\ received' = received + 1
  /\ \E m \in MessagesOrEmpty, p \in Platforms :
       task' = [task EXCEPT ![h] =
         BeginClassify(NewTask("classifyMessage", MessageArg(m, p)))]
  /\ UNCHANGED <<extensionVars, dbVars, envVars, promptVars, summarizerVars, mmSession,
                 sessionsCreated, initialized>>

\* One caller of classifyMessage, the model answering anything.
NextClassify ==
  \/ CallClassifyAny(Caller)
  \/ Respond(Caller)
  \/ PromptCheckAvailability(Caller)
  \/ PromptCreateSession(Caller)
  \/ PromptResponseAny(Caller)
  \/ PromptError(Caller)
  \/ StoreClassification(Caller)

SpecClassify == Init /\ [][NextClassify]_vars

\* ================================================================ claims

Range(s) == {s[i] : i \in 1..Len(s)}

IsPrefix(s, t) == Len(s) <= Len(t) /\ SubSeq(t, 1, Len(s)) = s

ActionableTypes == {"bug", "feature", "pr_mention"}

\* The steps of one processThread invocation, in order.
Pipeline ==
  <<"prompt", "storeClassification", "summarize", "storeSummary", "storeIssue">>

\* A finished updateIssueStatus that had found its record.
UpdateDone(t) ==
  t.op = "updateIssueStatus" /\ t.pc = "done" /\ t.issue.id # 0

\* C1 (as claimed; the code has no guard): an updateIssueStatus request made
\* when the stored status is not 'draft', or whose new status is neither
\* 'approved' nor 'rejected', fails with InvalidTransition and leaves the
\* stored record as it was read.
C1_InvalidTransitionRejected ==
  \A h \in Handlers :
    LET t == task[h] IN
    (/\ UpdateDone(t)
     /\ \/ t.issue.status # "draft"
        \/ t.arg.status \notin {"approved", "rejected"})
    => /\ t.result.outcome = "rejected"
       /\ t.result.error = "InvalidTransition"
       /\ t.arg.id \in DOMAIN db["issues"] => db["issues"][t.arg.id] = t.issue

\* C2 (as claimed; the code has no guard): approved and rejected are
\* terminal: a stored status that is approved or rejected never changes.
C2_TerminalStatus ==
  [][\A id \in DOMAIN db["issues"] :
       (/\ db["issues"][id].status \in {"approved", "rejected"}
        /\ id \in DOMAIN db'["issues"])
       => db'["issues"][id].status = db["issues"][id].status]_vars

\* C3: a processThread whose first message was classified as anything but
\* bug, feature or pr_mention resolves with actionable = false and neither
\* summary nor issueDraft; it never called the summarizer and stored nothing
\* into summaries or issues.
C3_ActionabilityGate ==
  \A h \in Handlers :
    LET t == task[h] IN
    (/\ t.op = "processThread"
     /\ t.pc = "done"
     /\ t.cls.id # 0
     /\ t.cls.classification \notin ActionableTypes)
    => /\ t.result.outcome = "resolved"
       /\ t.result.actionable = FALSE
       /\ t.result.classification = t.cls
       /\ t.result.summary = NoSummary
       /\ t.result.issueDraft = NoIssue
       /\ Range(t.trace) \cap {"summarize", "storeSummary", "storeIssue"} = {}

\* C3 witness: a thread classified as 'other' has been answered.
C3_Witness ==
  \E h \in Handlers :
    /\ task[h].op = "processThread"
    /\ task[h].pc = "done"
    /\ task[h].cls.id # 0
    /\ task[h].cls.classification = "other"
    /\ task[h].cls.confidence = "medium"

\* A finished direct processThread call that came out not actionable.
NotActionableDone(t) ==
  /\ t.op = "processThread"
  /\ t.pc = "done"
  /\ t.result.outcome = "resolved"
  /\ ~t.result.actionable

\* C4 (as claimed): when processThread ends not actionable, all three
\* collections hold exactly the records they held before the call.
C4_NothingPersisted ==
  NotActionableDone(task[Caller]) => db = task[Caller].before

\* C4 (amended): when processThread ends not actionable, summaries and issues
\* hold exactly the records they held before the call, and classifications
\* holds those plus one new record: the returned classification, under a
\* fresh id.
C4_OnlyClassificationPersisted ==
  LET t == task[Caller]
      c == t.result.classification
  IN NotActionableDone(t)
     => /\ db["summaries"] = t.before["summaries"]
        /\ db["issues"] = t.before["issues"]
        /\ c.id \notin DOMAIN t.before["classifications"]
        /\ db["classifications"] = Put(t.before["classifications"], c.id, c)

\* C4 witness: a not-actionable processThread call made on a store that
\* already held records has returned.
C4_Witness ==
  /\ NotActionableDone(task[Caller])
  /\ task[Caller].before["classifications"] # <<>>
  /\ task[Caller].before["issues"] # <<>>

\* C5: a processThread invocation takes the steps prompt, store the
\* classification, summarize, store the summary, store the draft in this
\* order and skips none: the summarizer is called only with the
\* classification stored and actionable, the draft is stored only with the
\* summary stored, a rejected invocation has stored no draft, and a successful
\* one returns the draft with the id the store assigned and status 'draft'.
C5_PipelineOrder ==
  \A h \in Handlers :
    LET t == task[h]
        draft == t.result.issueDraft
    IN t.op = "processThread" =>
       /\ IsPrefix(t.trace, Pipeline)
       /\ "summarize" \in Range(t.trace)
            => /\ t.cls.id \in 1..keyGen["classifications"]
               /\ t.cls.classification \in ActionableTypes
       /\ "storeIssue" \in Range(t.trace)
            => t.sum.id \in 1..keyGen["summaries"]
       /\ (t.pc = "done" /\ t.result.outcome = "rejected")
            => "storeIssue" \notin Range(t.trace) /\ draft = NoIssue
       /\ (t.pc = "done" /\ t.result.outcome = "resolved" /\ t.result.actionable)
            => /\ t.trace = Pipeline
               /\ draft.status = "draft"
               /\ draft.id \in 1..keyGen["issues"]
               /\ draft.id \in DOMAIN db["issues"]
                    => [db["issues"][draft.id] EXCEPT !.status = "draft"] = draft

\* C5 witness: an actionable thread has gone through the whole pipeline.
C5_Witness ==
  \E h \in Handlers :
    /\ task[h].op = "processThread"
    /\ task[h].pc = "done"
    /\ task[h].result.actionable
    /\ task[h].result.issueDraft.id \in DOMAIN db["issues"]
    /\ task[h].result.summary.id # 0
\* A batch call is never stuck: while it runs, its chain has a next step.
BatchGoesOn(t) == t.pc \notin {"idle", "done"} => ENABLED NextBatch

\* C6: classifyMessages resolves with one result per message, result i for
\* message i; an item that threw is an entry with classification 'error' and
\* the error's message, every other item is the classification record as it
\* was stored, and the items after a failed one are still processed.
C6_ClassifyBatchIsolation ==
  LET t == task[Caller] IN
  t.op = "classifyMessages" =>
    /\ BatchGoesOn(t)
    /\ Len(t.results) <= Len(t.items)
    /\ t.pc = "done" =>
         /\ t.result.outcome = "resolved"
         /\ Len(t.results) = Len(t.items)
    /\ \A i \in 1..Len(t.results) :
         LET r == t.results[i]
             c == r.classification
         IN /\ c.messageText = t.items[i].messages[1].text
            /\ r.outcome \in {"resolved", "error-entry"}
            /\ r.outcome = "error-entry"
                 => c.classification = "error" /\ r.error # ""
            /\ r.outcome = "resolved"
                 => /\ c.classification \in Categories
                    /\ c.id \in DOMAIN db["classifications"]
                    /\ db["classifications"][c.id] = c
                    /\ c.id \notin DOMAIN t.before["classifications"]

\* C6 witness: a batch of two whose first item threw and whose second item
\* was classified and stored.
C6_Witness ==
  LET t == task[Caller] IN
  /\ t.op = "classifyMessages"
  /\ t.pc = "done"
  /\ Len(t.items) = 2
  /\ t.results[1].outcome = "error-entry"
  /\ t.results[2].outcome = "resolved"
  /\ t.items[1] # t.items[2]

\* C7: processThreads always returns one outcome per thread, in input order;
\* a thread that failed (no messages, or the capability failed) is an entry
\* {threadId, error, actionable: false}, and the threads after it are still
\* processed.
C7_ThreadBatchIsolation ==
  LET t == task[Caller] IN
  t.op = "processThreads" =>
    /\ BatchGoesOn(t)
    /\ Len(t.results) <= Len(t.items)
    /\ t.pc = "done" =>
         /\ t.result.outcome = "resolved"
         /\ Len(t.results) = Len(t.items)
    /\ \A i \in 1..Len(t.results) :
         LET r == t.results[i]
             thread == t.items[i]
         IN /\ r.outcome \in {"resolved", "error-entry"}
            /\ r.outcome = "error-entry"
                 => /\ r.threadId = thread.threadId
                    /\ r.error # ""
                    /\ ~r.actionable
            /\ r.outcome = "resolved"
                 => /\ r.classification.messageText = thread.messages[1].text
                    /\ r.actionable => r.summary.threadId = thread.threadId
            /\ Len(thread.messages) = 0
                 => /\ r.outcome = "error-entry"
                    /\ r.error = "Thread must contain at least one message"
            /\ (Len(thread.messages) > 0 /\ aiLanguageModel # "readily")
                 => /\ r.outcome = "error-entry"
                    /\ r.error = "Prompt API is not available"

\* C7 witness: a batch of two whose first thread is malformed and whose
\* second thread went through to a stored draft.
C7_Witness ==
  LET t == task[Caller] IN
  /\ t.op = "processThreads"
  /\ t.pc = "done"
  /\ Len(t.items) = 2
  /\ t.results[1].outcome = "error-entry"
  /\ t.results[2].outcome = "resolved"
  /\ t.results[2].issueDraft.id \in DOMAIN db["issues"]

\* C8 (as claimed; the code has no queue): no two session.prompt calls on
\* the Prompt session, and no two summarize calls on the Summarizer, are
\* pending at the same time.
C8_OneCallInFlight ==
  \A h1, h2 \in Handlers :
    h1 # h2 =>
      ~(/\ task[h1].pc \in {"cm_prompt", "st_summarize"}
        /\ task[h2].pc = task[h1].pc
        /\ task[h2].sess = task[h1].sess)

\* C9 (as claimed; the code reads and writes in two transactions): an update
\* is atomic with respect to a delete of the same id: an issue record that
\* has been deleted is not created again by an update's write.
C9_AtomicReadModifyWrite ==
  [][\A id \in 1..keyGen["issues"] :
       id \notin DOMAIN db["issues"] => id \notin DOMAIN db'["issues"]]_vars

\* The availability check of the call's capability returns false.
CheckReturnsFalse(t) ==
  \/ t.op = "classifyMessage" /\ aiLanguageModel # "readily"
  \/ t.op = "summarizeThread" /\ aiSummarizer # "readily"
  \/ t.op = "processImage" /\ aiLanguageModel \in {"no", "absent"}

\* C10 (as claimed): with the availability check returning false,
\* classifyMessage, summarizeThread and processImage each complete without
\* throwing, and persist nothing.
C10_NeverThrowsWhenUnavailable ==
  LET t == task[Caller] IN
  (t.pc = "done" /\ CheckReturnsFalse(t))
  => t.result.outcome = "resolved" /\ db = t.before

\* C10 (amended): with the availability check returning false, processImage
\* completes without throwing and returns the zero-value result with error
\* 'Multimodal AI not available'; classifyMessage and summarizeThread reject
\* with '<capability> API is not available'; none of them sends a request to
\* the capability or persists a record.
C10_DegradesWhenUnavailable ==
  LET t == task[Caller] IN
  (t.pc = "done" /\ CheckReturnsFalse(t))
  => /\ db = t.before
     /\ t.trace = <<>>
     /\ t.op = "classifyMessage"
          => /\ t.result.outcome = "rejected"
             /\ t.result.error = "Prompt API is not available"
     /\ t.op = "summarizeThread"
          => /\ t.result.outcome = "rejected"
             /\ t.result.error = "Summarizer API is not available"
     /\ t.op = "processImage"
          => /\ t.result.outcome = "resolved"
             /\ t.result.image.error = "Multimodal AI not available"
             /\ t.result.image.text = <<>>
             /\ t.result.image.context = <<>>
             /\ t.result.image.errors = <<>>

\* C10 witness: summarizeThread was called without a usable Summarizer, on a
\* store that holds a classification, and has answered.
C10_Witness ==
  LET t == task[Caller] IN
  /\ t.pc = "done"
  /\ t.op = "summarizeThread"
  /\ aiSummarizer = "no"
  /\ Len(t.arg.messages) > 0
  /\ db["classifications"] # <<>>
\* The response holds a category (confidence) the classifier can read.
HasCategory(response) ==
  \E i \in 1..(Len(response) - 1) :
    /\ Lower(response[i]) = "category:"
    /\ Leading(Lower(response[i + 1])) \in Categories

HasConfidence(response) ==
  \E i \in 1..(Len(response) - 1) :
    /\ Lower(response[i]) = "confidence:"
    /\ Leading(Lower(response[i + 1])) \in Confidences

\* C11: every stored classification has its category among the four values
\* and its confidence among the three; output without a readable category is
\* stored as 'other', output without a readable confidence as 'low'; and once
\* the model has answered, classifyMessage resolves whatever the answer was.
C11_ClassificationEnum ==
  /\ \A id \in DOMAIN db["classifications"] :
       LET c == db["classifications"][id] IN
       /\ c.classification \in Categories
       /\ c.confidence \in Confidences
       /\ ~HasCategory(c.rawResponse) => c.classification = "other"
       /\ ~HasConfidence(c.rawResponse) => c.confidence = "low"
  /\ \A h \in Handlers :
       LET t == task[h] IN
       (t.op = "classifyMessage" /\ t.pc = "done" /\ t.cls # NoClassification)
       => /\ t.result.outcome = "resolved"
          /\ t.result.classification.id \in DOMAIN db["classifications"]
          /\ db["classifications"][t.result.classification.id]
               = t.result.classification

\* C11 witness: classifyMessage has resolved for output in which nothing is
\* readable, and the record is stored as other/low.
C11_Witness ==
  LET t == task[Caller] IN
  /\ t.op = "classifyMessage"
  /\ t.pc = "done"
  /\ t.cls.rawResponse = <<"BUG", "Category:">>
  /\ \E id \in DOMAIN db["classifications"] :
       /\ db["classifications"][id].rawResponse = t.cls.rawResponse
       /\ db["classifications"][id].classification = "other"
       /\ db["classifications"][id].confidence = "low"
\* The ids returned so far by inserts into storeName, in order.
ReturnedIds(log, storeName) ==
  SelectSeq(log, LAMBDA e : e.store = storeName)

\* C12: in each store the ids returned by inserts are 1, 2, 3, ... in the
\* order of the inserts, whatever was deleted or cleared in between and
\* whatever was inserted into the other stores: strictly increasing, never
\* reused; and no stored record has an id that was not returned.
C12_IdsNeverReused ==
  \A storeName \in AllStores :
    LET ids == ReturnedIds(task[Caller].trace, storeName) IN
    /\ \A i \in 1..Len(ids) : ids[i].id = i
    /\ DOMAIN db[storeName] \subseteq 1..Len(ids)
    /\ \A id \in DOMAIN db[storeName] : db[storeName][id].id = id

\* C12 witness: an insert into the issues store after its only record was
\* removed (deleted or cleared) has returned id 2.
C12_Witness ==
  LET t == task[Caller] IN
  /\ t.op = "storeRecord"
  /\ t.pc = "done"
  /\ t.arg.store = "issues"
  /\ t.before["issues"] = <<>>
  /\ t.result.id = 2
  /\ DOMAIN db["issues"] = {2}
\* The insert that returned id for storeName (ids are unique per store).
InsertOf(log, storeName, id) ==
  CHOOSE e \in {log[i] : i \in 1..Len(log)} : e.store = storeName /\ e.id = id

\* A read by id that found a record.
ReadBack(t) == t.op = "retrieve" /\ t.pc = "done" /\ t.result.records # {}

\* The record read equals the input on the fields the caller gave.
SameInputFields(r, data) ==
  /\ r.platform = data.platform
  /\ r.type = data.type
  /\ r.content = data.content
  /\ data.status # "" => r.status = data.status

\* C13 (as claimed): a record read back by the id its insert returned equals
\* the input on every input field, has that id, and has the caller's
\* timestamp when one was supplied and the time of the insert otherwise.
C13_RoundTripKeepsTimestamp ==
  LET t == task[Caller] IN
  ReadBack(t) =>
    LET e == InsertOf(t.trace, t.arg.store, t.arg.id) IN
    \A r \in t.result.records :
      /\ SameInputFields(r, e.data)
      /\ r.id = e.id
      /\ r.timestamp = IF e.data.timestamp # 0 THEN e.data.timestamp ELSE e.now

\* C13 (amended): a record read back by the id its insert returned equals the
\* input on every input field other than timestamp and has that id; a status
\* left out is 'draft' (issues) or 'pending' (messages). In the three stores
\* of the storage manager the timestamp is always the time of the insert, a
\* supplied one is overwritten; in the messages store a supplied timestamp is
\* kept and the time of the insert is used only when none was supplied.
C13_RoundTrip ==
  LET t == task[Caller] IN
  ReadBack(t) =>
    LET e == InsertOf(t.trace, t.arg.store, t.arg.id) IN
    /\ Cardinality(t.result.records) = 1
    /\ \A r \in t.result.records :
         /\ SameInputFields(r, e.data)
         /\ r.id = e.id
         /\ e.data.status = "" =>
              r.status = CASE e.store = "issues" -> "draft"
                           [] e.store = STORE_NAME -> "pending"
                           [] OTHER -> ""
         /\ r.timestamp =
              IF e.store = STORE_NAME /\ e.data.timestamp # 0
              THEN e.data.timestamp ELSE e.now

\* C13 witness: an issue inserted with a timestamp of its own was read back.
C13_Witness ==
  LET t == task[Caller] IN
  /\ ReadBack(t)
  /\ t.arg.store = "issues"
  /\ InsertOf(t.trace, "issues", t.arg.id).data.timestamp = 5
  /\ \E r \in t.result.records : r.timestamp = 1000
\* A query has answered.
Queried(t) == t.op \in {"getRecords", "retrieveAll"} /\ t.pc = "done"

\* The stored records that equal the filter on every field it names.
ExactMatches(storeName, filters) ==
  {db[storeName][id] : id \in
     {i \in DOMAIN db[storeName] :
        \A key \in DOMAIN filters : db[storeName][i][key] = filters[key]}}

\* C14 (as claimed): every query returns exactly the stored records that
\* equal the filter on every field the filter names.
C14_FilterExactEverywhere ==
  LET t == task[Caller] IN
  Queried(t) => t.result.records = ExactMatches(t.arg.store, t.arg.filters)

\* The part of a filter retrieveAll looks at.
KnownFields(filter) ==
  [key \in {k \in DOMAIN filter \cap {"platform", "type", "status"} :
              filter[k] # ""} |-> filter[key]]

\* C14 (amended): getClassifications, getSummaries and getIssues return
\* exactly the stored records that equal the filter on every field it names
\* (all records for the empty filter); retrieveAll does so for the fields
\* platform, type and status, and ignores any other field of the filter.
C14_FilterExact ==
  LET t == task[Caller] IN
  /\ (t.op = "getRecords" /\ t.pc = "done")
       => t.result.records = ExactMatches(t.arg.store, t.arg.filters)
  /\ (t.op = "retrieveAll" /\ t.pc = "done")
       => t.result.records = ExactMatches(STORE_NAME, KnownFields(t.arg.filters))

\* C14 witness: getIssues({status: 'draft', platform: 'slack'}) has answered
\* with one record while an approved slack issue is stored as well.
C14_Witness ==
  LET t == task[Caller] IN
  /\ t.op = "getRecords"
  /\ t.pc = "done"
  /\ t.arg.store = "issues"
  /\ t.arg.filters = [status |-> "draft", platform |-> "slack"]
  /\ Cardinality(t.result.records) = 1
  /\ \E id \in DOMAIN db["issues"] :
       /\ db["issues"][id].status = "approved"
       /\ db["issues"][id].platform = "slack"
\* An update has answered.
Updated(t) == t.op \in {"update", "updateIssueStatus"} /\ t.pc = "done"

\* The fields an update call supplies.
Supplied(t) ==
  IF t.op = "update" THEN t.arg.updates ELSE [status |-> t.arg.status]

\* old with exactly the supplied fields replaced, the id kept.
Replaced(old, supplied) ==
  [key \in DOMAIN old |->
     IF key # "id" /\ key \in DOMAIN supplied THEN supplied[key] ELSE old[key]]

\* The stores after a successful update of t's record, and nothing else.
AfterUpdate(t) ==
  [t.before EXCEPT ![t.arg.store] =
     [id \in DOMAIN @ |->
        IF id = t.arg.id THEN Replaced(@[id], Supplied(t)) ELSE @[id]]]

\* C15 (as claimed): an update of a stored id succeeds and leaves the stores
\* as they were except for that record, which is the old record with exactly
\* the supplied fields replaced and its id unchanged; an update of an id that
\* is not stored reports not-found and leaves the stores unchanged.
C15_UpdateReportsNotFound ==
  LET t == task[Caller] IN
  Updated(t) =>
    IF t.arg.id \in DOMAIN t.before[t.arg.store]
    THEN t.result.outcome = "resolved" /\ db = AfterUpdate(t)
    ELSE t.result.outcome = "rejected" /\ db = t.before

\* C15 (amended): as claimed for a stored id; for an id that is not stored,
\* update rejects with a not-found error while updateIssueStatus resolves
\* without reporting anything, and both leave the stores unchanged.
C15_UpdateMerges ==
  LET t == task[Caller] IN
  Updated(t) =>
    IF t.arg.id \in DOMAIN t.before[t.arg.store]
    THEN t.result.outcome = "resolved" /\ db = AfterUpdate(t)
    ELSE /\ db = t.before
         /\ t.op = "update" =>
              /\ t.result.outcome = "rejected"
              /\ t.result.error = "Item with ID not found"
         /\ t.op = "updateIssueStatus" => t.result.outcome = "resolved"

\* C15 witness: update(1, {status: 'approved', id: 7}) has succeeded on a
\* store of two records.
C15_Witness ==
  LET t == task[Caller] IN
  /\ t.op = "update"
  /\ t.pc = "done"
  /\ t.arg.id = 1
  /\ t.arg.updates = [status |-> "approved", id |-> 7]
  /\ t.result.outcome = "resolved"
  /\ DOMAIN db[STORE_NAME] = {1, 2}
  /\ db[STORE_NAME][1].status = "approved"
\* The ids of the classification records a batch has stored so far.
StoredByBatch(t) ==
  {t.results[i].classification.id :
     i \in {k \in 1..Len(t.results) : t.results[k].outcome = "resolved"}}

\* C16: a classifyMessages call works through its items one at a time, in
\* input order: while item k is in progress exactly the items before k have
\* their results, result i belongs to item i, the records stored so far are
\* those of the resolved results, and their ids increase with the index.
C16_BatchSequential ==
  LET t == task[Caller] IN
  t.op = "classifyMessages" =>
    /\ t.pc \notin {"idle", "done"} => t.arg = t.items[Len(t.results) + 1]
    /\ \A i \in 1..Len(t.results) :
         t.results[i].classification.messageText = t.items[i].messages[1].text
    /\ DOMAIN db["classifications"] \ DOMAIN t.before["classifications"]
         = StoredByBatch(t) \cup
             (IF t.pc \notin {"idle", "done"} /\ t.cls.id # 0
              THEN {t.cls.id} ELSE {})
    /\ \A i, j \in 1..Len(t.results) :
         (/\ i < j
          /\ t.results[i].outcome = "resolved"
          /\ t.results[j].outcome = "resolved")
         => t.results[i].classification.id < t.results[j].classification.id

\* C16 witness: the prompt for the second of two different items is pending
\* and the first item's record is stored.
C16_Witness ==
  LET t == task[Caller] IN
  /\ t.op = "classifyMessages"
  /\ t.pc = "cm_prompt"
  /\ Len(t.items) = 2
  /\ t.items[1] # t.items[2]
  /\ Len(t.results) = 1
  /\ t.results[1].outcome = "resolved"
  /\ t.results[1].classification.id \in DOMAIN db["classifications"]
\* How often an invocation has done event.
Count(trace, event) == Cardinality({i \in 1..Len(trace) : trace[i] = event})

\* The classification records stored since the call began.
NewClassifications(t) ==
  DOMAIN db["classifications"] \ DOMAIN t.before["classifications"]

\* C17 (as claimed): every processThread invocation on a thread of at least
\* one message prompts the classifier exactly once and stores exactly one
\* classification record.
C17_AlwaysOneClassification ==
  LET t == task[Caller] IN
  (t.op = "processThread" /\ t.pc = "done" /\ Len(t.arg.messages) >= 1)
  => /\ Count(t.trace, "prompt") = 1
     /\ Cardinality(NewClassifications(t)) = 1

\* C17 (amended): a processThread invocation prompts the classifier at most
\* once, for messages[0] with the thread's platform, and stores at most one
\* classification record; exactly one of each when the invocation resolves,
\* and no record when the capability is unavailable or the prompt fails. The
\* actionable flag is a function of the first message's classification.
C17_FirstMessageOnly ==
  LET t == task[Caller] IN
  t.op = "processThread" =>
    /\ Count(t.trace, "prompt") <= 1
    /\ Cardinality(NewClassifications(t)) = Count(t.trace, "storeClassification")
    /\ NewClassifications(t) \subseteq {t.cls.id}
    /\ t.cls # NoClassification =>
         /\ t.cls.messageText = t.arg.messages[1].text
         /\ t.cls.author = t.arg.messages[1].author
         /\ t.cls.platform = t.arg.platform
    /\ (t.pc = "done" /\ t.result.outcome = "resolved") =>
         /\ Count(t.trace, "prompt") = 1
         /\ NewClassifications(t) = {t.result.classification.id}
         /\ t.result.classification =
              [ClassificationResult(t.arg.messages[1], t.arg.platform,
                                    t.result.classification.rawResponse)
                 EXCEPT !.id = t.result.classification.id]
         /\ t.result.actionable
              = (t.result.classification.classification \in ActionableTypes)
    /\ (t.pc = "done" /\ t.result.outcome = "rejected"
          /\ Count(t.trace, "storeClassification") = 0) =>
         NewClassifications(t) = {}

\* C17 witness: a thread whose first message is "any news?" and whose second
\* is the crash report was found not actionable, one record stored.
C17_Witness ==
  LET t == task[Caller] IN
  /\ t.op = "processThread"
  /\ t.pc = "done"
  /\ Len(t.arg.messages) = 2
  /\ t.arg.messages[1].text = "any news?"
  /\ t.arg.messages[2].text = "crash on save"
  /\ t.result.outcome = "resolved"
  /\ ~t.result.actionable
  /\ Cardinality(NewClassifications(t)) = 1
\* The label the claim maps each draft type to.
TypeLabel(type) ==
  CASE type = "bug" -> "bug"
    [] type = "feature" -> "enhancement"
    [] type = "pr_mention" -> "pr-related"

\* A draft has been built.
Drafted(t) == t.op = "createIssueDraft" /\ t.pc = "done"

\* C18: the labels of a draft are, as a set, the label of its type, 'ghosthub'
\* and the lower-cased platform name; {bug, ghosthub, slack} for a bug seen
\* on slack; they are determined by the type and the platform alone.
C18_LabelSet ==
  LET t == task[Caller]
      draft == t.result.issueDraft
  IN Drafted(t) =>
       /\ Range(draft.labels)
            = {TypeLabel(draft.type), "ghosthub", Lower(draft.platform)}
       /\ (draft.type = "bug" /\ t.arg.platform = "slack")
            => Range(draft.labels) = {"bug", "ghosthub", "slack"}
       /\ draft.labels = _generateIssueLabels(t.cls.classification, t.sum.platform)
       /\ draft.platform = OrUnknown(t.arg.platform)

\* C18 witness: a feature request seen on "Discord" was drafted with the
\* labels enhancement, ghosthub and discord.
C18_Witness ==
  LET t == task[Caller] IN
  /\ Drafted(t)
  /\ t.arg.platform = "Discord"
  /\ t.result.issueDraft.labels = <<"enhancement", "ghosthub", "discord">>
\* C19: every stored summary has messageCount equal to the number of its
\* originalMessages, at least one; the originalMessages of a summary, and
\* the blocks of the text sent to the summarizer for it, are the thread's
\* messages in input order.
C19_SummaryInvariants ==
  /\ \A id \in DOMAIN db["summaries"] :
       LET r == db["summaries"][id] IN
       /\ r.messageCount = Len(r.originalMessages)
       /\ r.messageCount >= 1
  /\ \A h \in Handlers :
       LET t == task[h] IN
       /\ "summarize" \in Range(t.trace) =>
            /\ Len(t.sent) = Len(t.arg.messages)
            /\ \A i \in 1..Len(t.sent) :
                 /\ t.sent[i].index = i
                 /\ t.sent[i].text = t.arg.messages[i].text
                 /\ t.sent[i].author = t.arg.messages[i].author
       /\ t.sum # NoSummary =>
            /\ t.sum.messageCount = Len(t.arg.messages)
            /\ Len(t.sum.originalMessages) = Len(t.arg.messages)
            /\ \A i \in 1..Len(t.arg.messages) :
                 /\ t.sum.originalMessages[i].text = t.arg.messages[i].text
                 /\ t.sum.originalMessages[i].author = t.arg.messages[i].author
       /\ t.sum.id # 0 =>
            /\ t.sum.id \in DOMAIN db["summaries"]
            /\ db["summaries"][t.sum.id] = t.sum

\* C19 witness: the summary of a thread of two different messages, the crash
\* report first, is stored.
C19_Witness ==
  LET t == task[Caller] IN
  /\ t.sum.id \in DOMAIN db["summaries"]
  /\ Len(t.arg.messages) = 2
  /\ t.arg.messages[1].text = "crash on save"
  /\ t.arg.messages[2].text = "any news?"
  /\ db["summaries"][t.sum.id].messageCount = 2
\* summarizeThread or processThread has answered a thread without messages.
EmptyThreadDone(t) ==
  /\ t.op \in {"summarizeThread", "processThread"}
  /\ t.pc = "done"
  /\ Len(t.arg.messages) = 0

C21_EmptyTextRejected ==
  LET t == task[Caller] IN
  (t.op = "classifyMessage" /\ t.pc = "done" /\ t.arg.messages[1].text = "")
  => /\ t.result.outcome = "rejected"
     /\ t.trace = <<>>
     /\ db = t.before
\* The classification results there are: the stored records and the results
\* the running or finished calls hold.
ClassificationResults ==
  {db["classifications"][id] : id \in DOMAIN db["classifications"]}
    \cup {task[h].cls : h \in {g \in Handlers : task[g].cls # NoClassification}}

\* C22: any two classification results made from the same raw response have
\* the same classification and the same confidence, whatever the message,
\* the state of the stores and the moment of the run.
C22_SameResponseSameClass ==
  \A r1, r2 \in ClassificationResults :
    r1.rawResponse = r2.rawResponse
    => /\ r1.classification = r2.classification
       /\ r1.confidence = r2.confidence

\* C22 witness: two stored classifications of different messages, made from
\* the same unreadable response, the second into a store that held the first.
C22_Witness ==
  \E i, j \in DOMAIN db["classifications"] :
    /\ i < j
    /\ db["classifications"][i].rawResponse = <<"sorry,", "no", "idea">>
    /\ db["classifications"][j].rawResponse = <<"sorry,", "no", "idea">>
    /\ db["classifications"][i].messageText # db["classifications"][j].messageText
\* C23: a summarizeStreaming that resolved without streaming has invoked
\* onChunk exactly once, with the full result it returns; one that streamed
\* has invoked onChunk with the stream's chunks, one invocation per chunk in
\* the order of arrival, and returns the argument of the last invocation, the
\* complete text; at any moment the invocations so far are the chunks
\* delivered so far; and once the call has resolved or rejected onChunk is
\* not invoked again.
C23_ChunkProtocol ==
  /\ [](LET t == task[Caller] IN
        t.op = "summarizeStreaming" =>
          /\ (t.pc = "done" /\ t.result.outcome = "resolved"
                /\ "summarize" \in Range(t.trace))
             => t.chunks = <<t.result.value>>
          /\ "summarizeStreaming" \in Range(t.trace)
             => /\ IsPrefix(t.chunks, t.sent)
                /\ (t.pc = "done" /\ t.result.outcome = "resolved")
                   => /\ t.chunks = t.sent
                      /\ t.chunks # <<>>
                         => /\ t.result.value = t.chunks[Len(t.chunks)]
                            /\ t.result.value = t.sent[Len(t.sent)])
  /\ [][LET t == task[Caller] IN
        (t.op = "summarizeStreaming" /\ t.pc = "done")
        => \/ task'[Caller].chunks = t.chunks
           \/ task'[Caller].pc = "idle"]_vars

\* C23 witness: a call has resolved after two chunks and returned the second.
C23_Witness ==
  LET t == task[Caller] IN
  /\ t.op = "summarizeStreaming"
  /\ t.pc = "done"
  /\ t.result.outcome = "resolved"
  /\ Len(t.chunks) = 2
  /\ t.result.value = <<"App crashes on save.", "Seen by two users.">>\* The result r is what processImage returns for this image: the error
\* result 'Multimodal AI not available' whenever the capability is missing
\* or says no; otherwise 'Invalid image source type' for a source of a wrong
\* type, the fetch's error for a URL that cannot be fetched, and for a
\* source that loads the parsed response or the prompt's error. Every result
\* with an error is the zero-value result. (A File the FileReader cannot read
\* gives the zero-value result too, its error field undefined.)
ImageOutcome(image, r) ==
  /\ r.error # "" => r = ImageFailure(r.error)
  /\ aiLanguageModel \in {"absent", "no"}
       => r.error = "Multimodal AI not available"
  /\ r.error = "Multimodal AI not available" => aiLanguageModel # "readily"
  /\ r.error # "Multimodal AI not available" =>
       CASE image = "number" -> r.error = "Invalid image source type"
         [] image = "https://broken" -> r.error = "Failed to fetch"
         [] image = "file-unreadable" -> r = ImageFailure("")
         [] OTHER -> \/ r.error = "prompt failed"
                     \/ \E response \in ImageResponses :
                          r = parseMultimodalResponse(response)

\* C24: processImage never throws: it resolves, and on unavailability, a
\* failed fetch, a wrong source type or a failed prompt with the zero-value
\* result carrying the error. processImages handles its images one at a
\* time in input order, result i is the result of image i whatever happened
\* to the other images, and it returns as many results as it got images.
C24_ImagesNeverThrow ==
  LET t == task[Caller] IN
  /\ (t.op = "processImage" /\ t.pc = "done")
     => /\ t.result.outcome = "resolved"
        /\ ImageOutcome(t.arg.image, t.result.image)
  /\ t.op = "processImages"
     => /\ Len(t.results) <= Len(t.items)
        /\ \A i \in 1..Len(t.results) :
             /\ t.results[i].outcome = "resolved"
             /\ ImageOutcome(t.items[i].image, t.results[i].image)
        /\ t.pc # "done" => t.arg = t.items[Len(t.results) + 1]
        /\ t.pc = "done" => /\ t.result.outcome = "resolved"
                            /\ Len(t.results) = Len(t.items)

\* C24 witness: processImages has returned two results, the error result for
\* a first image of a wrong type and the parsed response for the second.
C24_Witness ==
  LET t == task[Caller] IN
  /\ t.op = "processImages"
  /\ t.pc = "done"
  /\ Len(t.results) = 2
  /\ t.items[1].image = "number"
  /\ t.results[1].image.error = "Invalid image source type"
  /\ t.results[2].image.error = ""
  /\ t.results[2].image.text = <<"Save">>
\* A finished analyzeMessage: what it was given, and the type it returned.
Analyzed(t) == t.op = "analyzeMessage" /\ t.pc = "done"

\* C25: the type is 'bug' exactly when errors were found or the text holds a
\* bug keyword; otherwise 'feature' exactly when it holds a feature keyword;
\* otherwise 'pr-mention' exactly when it holds a PR keyword; otherwise
\* 'general'. A text with a bug keyword and a feature keyword is 'bug', and
\* the type is never 'unknown'.
C25_TypePriorityChain ==
  LET t == task[Caller] IN
  Analyzed(t) =>
    LET a == t.sent[1]
        type == t.result.value
        bug == a.hasErrors \/ IncludesAny(a.text, "bug")
        feature == IncludesAny(a.text, "feature")
        pr == IncludesAny(a.text, "pr-mention")
    IN /\ type \in {"bug", "feature", "pr-mention", "general"}
       /\ type = "bug" <=> bug
       /\ ~bug => (type = "feature" <=> feature)
       /\ (~bug /\ ~feature) => (type = "pr-mention" <=> pr)
       /\ (~bug /\ ~feature /\ ~pr) => type = "general"
       /\ (IncludesAny(a.text, "bug") /\ feature) => type = "bug"

\* C25 witness: 'Crash request', without errors in any image, came out as
\* 'bug' although it holds the feature keyword 'request'.
C25_Witness ==
  LET t == task[Caller] IN
  /\ Analyzed(t)
  /\ t.sent[1].text = <<"Crash", "request">>
  /\ ~t.sent[1].hasErrors
  /\ t.result.value = "bug"
\* initialize or getAvailability has returned its report.
Reported(t) == t.op \in {"initialize", "getAvailability"} /\ t.pc = "done"

\* C26: initialize and getAvailability never throw and report ready exactly
\* when they report both capabilities available; a flag changes only to the
\* answer of a check made in that step; what a call reports are the flags as
\* the call leaves them, and an initialize that finds the workflow not
\* initialized (at first, or after cleanup) reports the answers of the
\* checks it makes then.
C26_ReadyIsBothAvailable ==
  /\ [](LET t == task[Caller] IN
        Reported(t) =>
          /\ t.result.outcome = "resolved"
          /\ t.result.value.ready
               = (t.result.value.promptAPI /\ t.result.value.summarizerAPI))
  /\ [][/\ promptIsAvailable' # promptIsAvailable
             => promptIsAvailable' = (aiLanguageModel = "readily")
        /\ summarizerIsAvailable' # summarizerIsAvailable
             => summarizerIsAvailable' = (aiSummarizer = "readily")
        /\ (~Reported(task[Caller]) /\ Reported(task[Caller])')
             => LET v == task'[Caller].result.value IN
                /\ v.promptAPI = promptIsAvailable'
                /\ v.summarizerAPI = summarizerIsAvailable'
                /\ (task'[Caller].op = "initialize" /\ ~initialized)
                     => /\ v.promptAPI = (aiLanguageModel = "readily")
                        /\ v.summarizerAPI = (aiSummarizer = "readily")]_vars

\* C26 witness: with the workflow not initialized (after a cleanup, or
\* before any initialize), getAvailability reports the Prompt API available
\* from an earlier check, the Summarizer not, and ready: false.
C26_Witness ==
  LET t == task[Caller] IN
  /\ Reported(t)
  /\ t.op = "getAvailability"
  /\ ~initialized
  /\ t.result.value.promptAPI
  /\ ~t.result.value.summarizerAPI
  /\ ~t.result.value.ready
\* The worker's createIssue has returned.
IssueRequestDone(t) == t.op = "createIssue" /\ t.pc = "done"

\* C27: a createIssue request never throws and sends at most one POST. When
\* it returns success it has sent exactly one and carries the issue created
\* from the request's title; otherwise it returns success: false with the
\* error: without a repository in request and settings 'No repository
\* selected...', without a token the sink's token error, both before any
\* POST; after a failed POST the sink's error, and no second POST.
C27_OnePostNoRetry ==
  LET t == task[Caller] IN
  /\ t.op = "createIssue" => Count(t.trace, "POST") <= 1
  /\ IssueRequestDone(t) =>
       LET v == t.result.value
           a == t.arg
           named == a.issueData.owner # "" /\ a.issueData.repo # ""
       IN /\ t.result.outcome = "resolved"
          /\ v.success => /\ Count(t.trace, "POST") = 1
                          /\ v.issue.number # 0
                          /\ v.issue.title = a.issueData.title
                          /\ a.token # ""
          /\ ~v.success => /\ v.error # <<>>
                           /\ v.issue = NoGitHubIssue
          /\ (~named /\ ~a.repository.set)
               => /\ ~v.success
                  /\ t.trace = <<>>
                  /\ v.error = <<"No repository selected. Please configure a repository first.">>
          /\ (a.token = "" /\ ~v.success /\ Len(v.error) = 2)
               => /\ t.trace = <<>>
                  /\ v.error = FailedToCreate(
                       "GitHub token not set. Please configure authentication.")
          /\ a.token = "" => ~v.success /\ t.trace = <<>>
          /\ (~v.success /\ t.trace # <<>>)
               => \E outcome \in FetchOutcomes :
                    ~outcome.ok /\ v.error = FailedToCreate(outcome.message)

\* C27 witness: a request without owner and repo went to the repository of
\* the settings, its single POST failed with an HTTP error, and the worker
\* returned success: false with the sink's error.
C27_Witness ==
  LET t == task[Caller] IN
  /\ IssueRequestDone(t)
  /\ t.arg.issueData.owner = ""
  /\ t.trace = <<"POST">>
  /\ ~t.result.value.success
  /\ t.result.value.error = FailedToCreate("Validation Failed")

\* C30: githubAPI.createIssue with an empty owner or an empty repo rejects
\* with 'Repository owner and name are required', and otherwise without a
\* title with 'Issue title is required'; in both cases no fetch is made.
C30_ValidatesBeforeFetch ==
  LET t == task[Caller] IN
  t.op = "githubAPI.createIssue" =>
    LET d == t.arg.issueData
        invalid == d.owner = "" \/ d.repo = "" \/ d.title = ""
    IN /\ invalid => t.pc \in {"done"} /\ t.trace = <<>>
       /\ (invalid /\ t.pc = "done")
            => /\ t.result.outcome = "rejected"
               /\ t.result.error =
                    IF d.owner = "" \/ d.repo = ""
                    THEN <<"Repository owner and name are required">>
                    ELSE <<"Issue title is required">>

\* C30 witness: a call with owner and repo but without a title, made with a
\* token, was rejected with 'Issue title is required'.
C30_Witness ==
  LET t == task[Caller] IN
  /\ t.op = "githubAPI.createIssue"
  /\ t.pc = "done"
  /\ t.arg.token # ""
  /\ t.arg.issueData.owner # ""
  /\ t.arg.issueData.repo # ""
  /\ t.arg.issueData.title = ""
  /\ t.result.error = <<"Issue title is required">>
\* The step is a deleteRecord or a clearStore.
Deletes == 
  /\ received' = received + 1
  /\ task'[Caller].op \in {"deleteRecord", "clearStore"}

\* C28: a deleteRecord or clearStore changes no collection but its own, and
\* a deleteRecord no record but the one it names, so a stored draft stays as
\* it is, field by field, when the classification or summary it refers to is
\* deleted; a draft that is stored never changes, and it holds its own copy
\* of the thread's messages.
C28_DraftIndependent ==
  /\ [][/\ Deletes =>
             LET arg == task'[Caller].arg IN
             /\ \A s \in AllStores \ {arg.store} : db'[s] = db[s]
             /\ task'[Caller].op = "deleteRecord"
                  => db'[arg.store] = Remove(db[arg.store], arg.id)
             /\ task'[Caller].op = "clearStore" => db'[arg.store] = <<>>
        /\ \A id \in DOMAIN db["issues"] \cap DOMAIN db'["issues"] :
             db'["issues"][id] = db["issues"][id]]_vars
  /\ [](\A id \in DOMAIN db["issues"] :
          LET issue == db["issues"][id] IN
          /\ issue.originalMessages # <<>>
          /\ issue.messageCount = Len(issue.originalMessages))

\* C28 witness: a stored draft refers to a classification and a summary that
\* are both gone, and still holds the thread's two messages.
C28_Witness ==
  \E id \in DOMAIN db["issues"] :
    LET issue == db["issues"][id] IN
    /\ issue.classificationId \notin DOMAIN db["classifications"]
    /\ issue.summaryId \notin DOMAIN db["summaries"]
    /\ issue.status = "draft"
    /\ issue.originalMessages =
         OriginalMessages(<<Msg("any news?", "bob"), Msg("crash on save", "ann")>>)
\* A title has been generated.
Titled(t) == t.op = "generateIssueTitle" /\ t.pc = "done"

\* The first sentence of the summary the call was given: the letters before
\* a sentence end that is followed by a blank, else the whole text.
SentenceOf(t) ==
  IF Len(t.arg.end) = 2 THEN Letters(t.arg.n) ELSE t.sent

\* What follows the emoji and the blank in a title.
AfterPrefix(title) == SubSeq(title, 3, Len(title))

\* C29 (as claimed): the title is the type's emoji, a blank, and the first
\* sentence, cut to 77 characters plus '...' when it is longer than 80; and
\* the title is never longer than 80 characters.
C29_TitleAtMost80 ==
  LET t == task[Caller] IN
  Titled(t) =>
    /\ SubSeq(t.result.value, 1, 2) = TitlePrefix(t.arg.type) \o <<" ">>
    /\ AfterPrefix(t.result.value) =
         IF Len(SentenceOf(t)) <= 80 THEN SentenceOf(t)
         ELSE SubSeq(SentenceOf(t), 1, 77) \o <<".", ".", ".">>
    /\ Len(t.result.value) <= 80

\* C29 (amended): the title is the type's emoji, a blank, and the first
\* sentence, cut to 77 characters plus '...' when it is longer than 80; what
\* follows the emoji and the blank is never longer than 80 characters, the
\* title itself (the emoji counted as one character) never longer than 82.
C29_SentenceAtMost80 ==
  LET t == task[Caller] IN
  Titled(t) =>
    /\ SubSeq(t.result.value, 1, 2) = TitlePrefix(t.arg.type) \o <<" ">>
    /\ AfterPrefix(t.result.value) =
         IF Len(SentenceOf(t)) <= 80 THEN SentenceOf(t)
         ELSE SubSeq(SentenceOf(t), 1, 77) \o <<".", ".", ".">>
    /\ Len(AfterPrefix(t.result.value)) <= 80
    /\ Len(t.result.value) <= 82

\* C29 witness: a first sentence of 81 characters was cut to 77 and '...',
\* which makes a title of 82 characters.
C29_Witness ==
  LET t == task[Caller] IN
  /\ Titled(t)
  /\ t.arg.n = 81
  /\ Len(t.arg.end) = 2
  /\ t.arg.rest # <<>>
  /\ SubSeq(t.result.value, 80, 82) = <<".", ".", ".">>
  /\ Len(t.result.value) = 82

\* A call of the given operation has returned and not yet been answered.
HasReturned(h, op) == task[h].op = op /\ task[h].pc = "done"

\* githubAPI.setToken(token) is called in this step.
SetsToken(token) ==
  \E h \in Handlers :
    \/ /\ task[h].pc = "idle"
       /\ task'[h].op = "verifyAuth"
       /\ task'[h].arg.token = token
    \/ /\ task[h].pc = "st_storage"
       /\ task'[h].pc = "done"
       /\ task'[h].result.value.success
       /\ task[h].arg.token = token
    \/ /\ task[h].pc = "rt_storage"
       /\ task'[h].pc = "done"
       /\ task'[h].result.value.success
       /\ token = ""

\* C31: the client's token is null on construction; getAuthHeaders throws
\* exactly when the client holds no token and else returns the header
\* 'Bearer <token>' for the token it holds; the token it holds changes only
\* by setToken and is then the token last set; a removeToken that succeeds
\* leaves it null, and a createIssue begun without a token fails without a
\* request to GitHub.
C31_TokenState ==
  /\ githubToken = ""
  /\ [](\A h \in Handlers :
          /\ HasReturned(h, "getAuthHeaders") =>
               LET headers == task[h].result.value IN
               /\ headers.throws <=> task[h].arg.held = ""
               /\ ~headers.throws =>
                    headers.Authorization = <<"Bearer ", task[h].arg.held>>
          /\ HasReturned(h, "createIssue") /\ task[h].arg.held = "" =>
               /\ ~task[h].result.value.success
               /\ task[h].trace = <<>>)
  /\ [][/\ \A token \in RequestTokens : SetsToken(token) => githubToken' = token
        /\ githubToken' # githubToken => \E token \in RequestTokens : SetsToken(token)
       ]_vars

\* C31 witness: a token was held, removeToken has succeeded, and
\* getAuthHeaders has thrown since.
C31_Witness ==
  \E h, g \in Handlers :
    /\ HasReturned(g, "removeToken")
    /\ task[g].result.value.success
    /\ task[g].arg.held # ""
    /\ HasReturned(h, "getAuthHeaders")
    /\ task[h].result.value.throws
    /\ githubToken = ""

\* C40 (as claimed): when verifyAuth has failed, the client holds the token
\* it held before the request, which is the saved one; a createIssue request
\* uses the saved token.
C40_FailedVerifyKeepsToken ==
  LET t == task[Caller] IN
  /\ HasReturned(Caller, "verifyAuth") /\ ~t.result.value.success =>
       /\ githubToken = t.arg.held
       /\ githubToken = savedToken
  /\ HasReturned(Caller, "createIssue") => t.arg.held = t.arg.saved

\* The ids that this step adds to a store.
Assigned(storeName) == DOMAIN db'[storeName] \ DOMAIN db[storeName]

\* Handler h's processThread invocation takes the given step of the pipeline.
Takes(h, step) ==
  /\ task[h].op = "processThread"
  /\ task'[h].op = "processThread"
  /\ task'[h].trace = Append(task[h].trace, step)

\* C32: every issue record has an actionable type, a messageCount equal to
\* the length of its originalMessages, and ids of a classification and of a
\* summary that the store has handed out; the record that a processThread
\* invocation stores has status 'draft' and carries the ids that the store
\* assigned to the classification and to the summary when this invocation
\* stored them.
C32_IssueRecordInvariants ==
  /\ [](\A id \in DOMAIN db["issues"] :
          LET issue == db["issues"][id] IN
          /\ issue.type \in {"bug", "feature", "pr_mention"}
          /\ issue.messageCount = Len(issue.originalMessages)
          /\ issue.classificationId \in 1..keyGen["classifications"]
          /\ issue.summaryId \in 1..keyGen["summaries"])
  /\ [][\A h \in Handlers :
          /\ Takes(h, "storeClassification") =>
               Assigned("classifications") = {task'[h].cls.id}
          /\ Takes(h, "storeSummary") =>
               /\ Assigned("summaries") = {task'[h].sum.id}
               /\ task'[h].cls.id = task[h].cls.id
          /\ Takes(h, "summarize") => task'[h].cls.id = task[h].cls.id
          /\ Takes(h, "storeIssue") =>
               \E id \in Assigned("issues") :
                 LET issue == db'["issues"][id] IN
                 /\ Assigned("issues") = {id}
                 /\ issue.status = "draft"
                 /\ issue.classificationId = task[h].cls.id
                 /\ issue.summaryId = task[h].sum.id
                 /\ task'[h].result.issueDraft.id = id
       ]_vars

\* C32 witness: a stored issue whose classification and summary have
\* different ids, stored by an invocation that has just returned.
C32_Witness ==
  \E h \in Handlers :
    LET draft == task[h].result.issueDraft IN
    /\ HasReturned(h, "processThread")
    /\ task[h].result.actionable
    /\ draft.id \in DOMAIN db["issues"]
    /\ db["issues"][draft.id].classificationId = 2
    /\ db["issues"][draft.id].summaryId = 1
    /\ db["issues"][draft.id].status = "draft"

\* analyzeMessage has returned for a message with images.
AnalyzedImages(t) == t.op = "analyzeImages" /\ t.pc = "done"

\* The errors of the images' results, image after image.
ErrorsInOrder(images) ==
  LET count(i) == Len(images[i].errors)
      RECURSIVE upTo(_)
      upTo(i) == IF i = 0 THEN 0 ELSE upTo(i - 1) + count(i)
  IN [k \in 1..upTo(Len(images)) |->
        LET i == CHOOSE j \in 1..Len(images) : upTo(j - 1) < k /\ k <= upTo(j)
        IN images[i].errors[k - upTo(i - 1)]]

\* What the claim says of the analysis of the attached images.
OnePerImage(t) ==
  LET analysis == t.result.value IN
  /\ Len(analysis.images) = Len(t.items)
  /\ \A i \in 1..Len(t.items) :
       /\ ImageOutcome(t.items[i].image, analysis.images[i])
       /\ analysis.images[i].error # "" => analysis.images[i].errors = <<>>
  /\ analysis.errors = ErrorsInOrder(analysis.images)
  /\ analysis.hasErrors <=> analysis.errors # <<>>

\* C33 (as claimed): the analysis analyzeMessage returns has one entry per
\* attached image in input order, errors is the per-image errors in that
\* order, hasErrors holds iff errors is not empty, and an image whose
\* analysis failed is an entry with empty errors.
C33_OneEntryPerImage ==
  LET t == task[Caller] IN
  AnalyzedImages(t) => t.result.outcome = "resolved" /\ OnePerImage(t)

\* C33 (amended): that holds when the analyzer has a MultimodalAI; an
\* analyzer without one (not initialized, or initialized before MultimodalAI
\* was loaded) returns no image entries and no errors whatever is attached.
C33_OneEntryPerImageIfMultimodal ==
  LET t == task[Caller]
      analysis == t.result.value
  IN
  AnalyzedImages(t) =>
    /\ t.result.outcome = "resolved"
    /\ analyzerMultimodalAI => OnePerImage(t)
    /\ ~analyzerMultimodalAI =>
         /\ analysis.images = <<>>
         /\ analysis.errors = <<>>
         /\ ~analysis.hasErrors

\* C33 witness: two images, the first failed and the second with an error
\* found in it: two entries, and the second's error in the analysis.
C33_Witness ==
  LET t == task[Caller]
      analysis == t.result.value
  IN
  /\ AnalyzedImages(t)
  /\ Len(t.items) = 2
  /\ Len(analysis.images) = 2
  /\ analysis.images[1].error = "Failed to fetch"
  /\ analysis.images[2].errors # <<>>
  /\ analysis.errors = analysis.images[2].errors
  /\ analysis.hasErrors

\* The content of the section with this tag, <<>> when there is none.
ContentOf(sections, tag) ==
  LET at == {i \in 1..Len(sections) : sections[i].tag = tag}
  IN IF at = {} THEN <<>> ELSE sections[CHOOSE i \in at : TRUE].content

\* C34 (as claimed): for a response made of any of the sections ERROR:,
\* TEXT: and CONTEXT: in any order, the parser returns without throwing,
\* errors is [] when ERROR: is absent or 'none' or '[]' and else that
\* section's content, text is '' when TEXT: is absent and else that
\* section's content, and context likewise.
C34_AbsentSectionsEmpty ==
  LET t == task[Caller]
      sections == t.arg.sections
      parsed == t.result.image
      errorText == ContentOf(sections, "ERROR:")
  IN
  HasReturned(Caller, "parseMultimodalResponse") =>
    /\ t.result.outcome = "resolved"
    /\ parsed.errors =
         IF errorText \in {<<"none">>, <<"[]">>} THEN <<>> ELSE errorText
    /\ parsed.text = ContentOf(sections, "TEXT:")
    /\ parsed.context = ContentOf(sections, "CONTEXT:")

\* C35 (as claimed): when cleanup() has returned, neither manager holds a
\* session and the workflow is marked uninitialized, whether or not a
\* session's destroy() threw.
C35_NoSessionAfterCleanup ==
  HasReturned(Caller, "cleanup") =>
    /\ promptSession = 0
    /\ summarizer = 0
    /\ ~initialized

\* C36 (as claimed): while no destroy is called a manager creates one
\* session at most: a session that a manager holds is never replaced by
\* another one, however the calls that found no session interleave.
C36_NoSessionOverwritten ==
  [][/\ promptSession # 0 => promptSession' = promptSession
     /\ summarizer # 0 => summarizer' = summarizer]_vars

\* The sends that carried the message with this timestamp.
SendsOf(timestamp) ==
  {i \in 1..Len(slackSent) :
     \E k \in 1..Len(slackSent[i].timestamps) :
       slackSent[i].timestamps[k] = timestamp}

\* C37 (as claimed): no message is sent to the worker twice, whatever the
\* ticks of the monitor do, and lastProcessedTimestamp never decreases.
C37_SentAtMostOnce ==
  /\ [](\A timestamp \in 1..MaxSlackMessages :
          Cardinality(SendsOf(timestamp)) <= 1)
  /\ [][lastProcessedTimestamp' >= lastProcessedTimestamp]_vars

\* C38 (as claimed): the draft of every CREATE_ISSUE request that has
\* succeeded is in the stored list, and no draft ever leaves the list,
\* however the requests interleave.
C38_NoDraftLost ==
  /\ [](\A h \in Handlers :
          (HasReturned(h, "handleCreateIssue")
             /\ task[h].result.outcome = "resolved")
            => \E i \in 1..Len(drafts) : drafts[i] = task[h].arg.draft)
  /\ [][\A i \in 1..Len(drafts) :
          \E j \in 1..Len(drafts') : drafts'[j] = drafts[i]]_vars

\* The ids sent to the worker since the map was last cleared, in order.
ForwardedSinceClear ==
  LET clears == {i \in 1..Len(contentLog) : contentLog[i].action = "clear"}
      from == IF clears = {} THEN 1 ELSE Max(clears) + 1
  IN [i \in 1..(Len(contentLog) + 1 - from) |-> contentLog[from + i - 1].id]

\* C39: since the last clear no id was sent to the worker twice, no message
\* without an id was ever sent, and the ids in the map of captured messages
\* are exactly the ids sent since the last clear.
C39_ForwardedOncePerId ==
  /\ \A i, j \in 1..Len(ForwardedSinceClear) :
       i # j => ForwardedSinceClear[i] # ForwardedSinceClear[j]
  /\ \A i \in 1..Len(contentLog) :
       contentLog[i].action = "messageDetected" => contentLog[i].id # ""
  /\ DOMAIN contentMessages = Range(ForwardedSinceClear)

\* C39 witness: m1 was sent, the map was cleared, m1 was sent again, and a
\* further call has changed nothing.
C39_Witness ==
  /\ received = 4
  /\ Len(contentLog) = 3
  /\ contentLog[1].id = "m1"
  /\ contentLog[2].action = "clear"
  /\ contentLog[3].id = "m1"
  /\ DOMAIN contentMessages = {"m1"}

====
